---- MODULE Spec2Model ----
(***************************************************************************)
(* State-machine model of the ohmyremote execution backbone: the storage   *)
(* repository (runs, jobs, run events), the server's RunOrchestrator and   *)
(* the bot's supervisor loop / job executor.                               *)
(*                                                                         *)
(* Every repository method is a sequence of SQL statements, each awaited.  *)
(* A statement is atomic (one synchronous node:sqlite call), and every     *)
(* await is a point where another task of the same process may run.  An    *)
(* action below is therefore one statement together with the synchronous   *)
(* code that follows it up to the next await.                              *)
(*                                                                         *)
(* Row ids (randomUUID) are modelled by the row's position in its table:   *)
(* a fresh id is the next index, and index order is creation order.        *)
(* A nullable column holds <<>> for NULL and <<v>> for the value v.        *)
(* Times are abstract clock ticks.                                         *)
(***************************************************************************)
EXTENDS Integers, Sequences, FiniteSets, TLC

VARIABLES
  now,          \* Date.now()
  runs,         \* table runs: sequence of run rows, id = index
  jobs,         \* table jobs: sequence of job rows, id = index
  runEvents,    \* table run_events: sequence of rows, in insertion order
  leaseHist,    \* history of the store tasks, per job: times queued, leases returned
  tasks,        \* callers of repository methods, between two awaits
  activeSessions, \* RunOrchestrator.activeSessions
  creates,      \* RunOrchestrator.createRun calls
  workers,      \* RunOrchestrator.processNextLeasedJob calls
  cancels,      \* repository.cancelRun calls
  reconciler,   \* RunOrchestrator.reconcileInFlightRuns call
  inbox,        \* table telegram_inbox: the update ids stored
  updates,      \* the bot's handleUpdate calls
  supervisor,   \* the bot's worker loop
  activeJobs,   \* the bot's activeJobs set
  execs,        \* the bot's executeJob calls, in the order they were started
  inboxCalls,   \* repository.insertTelegramInbox calls
  config,       \* the handler's options and the projects table: killSwitch, projects
  chatState,    \* TelegramCommandHandler.chatState: chat id -> ChatState
  chats,        \* table chats: external chat id -> row
  sessions,     \* table sessions: sequence of rows, id = index
  auditLogs,    \* table audit_logs, in insertion order
  lastCall,     \* history: the latest handleUpdate call and what it returned
  enabledUntil, \* history: the expiry the latest handled /enable_unsafe computed
  handledCount, \* history: number of handleUpdate calls so far
  engines,      \* executeJobInner calls of the handler's runs: run id -> call
  enqueuedUnsafe, \* history: the runs enqueued while unsafe mode was on
  parser,       \* one engine event parser: its closure state and what it returned
  runner,       \* ProcessRunner: activeBySession, the processes started, the start calls
  engineRun,    \* one runClaude call: its watchdog, its cancel polls, what it returned
  stream,       \* one back-pressured output stream of a child and its consumer
  streamer,     \* TelegramRunStreamer: one run's progress message and the transport calls
  decoder,      \* two line decoders fed the same text, whole and in two chunks
  shutdown      \* gracefulShutdown of the bot: <<>> before the signal, else <<phase>>

storeVars == <<runs, jobs, runEvents, leaseHist>>
orchVars == <<activeSessions, creates, workers, cancels, reconciler>>
botVars == <<inbox, updates, supervisor, activeJobs, execs>>
handlerVars == <<config, chatState, chats, sessions, auditLogs,
                 lastCall, enabledUntil, handledCount,
                 engines, enqueuedUnsafe>>
moreVars == <<engineRun, stream, streamer, decoder, shutdown>>
unitVars == <<inboxCalls, handlerVars, parser, runner, moreVars>>
vars == <<now, runs, jobs, runEvents, leaseHist, tasks,
          activeSessions, creates, workers, cancels, reconciler,
          inbox, updates, supervisor, activeJobs, execs,
          inboxCalls, config, chatState, chats, sessions, auditLogs,
          lastCall, enabledUntil, handledCount, engines, enqueuedUnsafe,
          parser, runner, engineRun, stream, streamer, decoder, shutdown>>

(***************************************************************************)
(* Bounds of the model                                                     *)
(***************************************************************************)
MaxTime == 1
MaxStoreRuns == 2
MaxStoreEvents == 3
MaxRequeues == 1
NumTasks == 2
NumCalls == 2
NumWorkers == 2
MaxExecEvents == 1
MaxStaleBefore == 1
MaxAttempts == 2
MaxOrchEvents == 1
NumOrchKeys == 2
NumCancels == 1
NumOrchCalls == 1
NumUpdates == 2
NumUpdateIds == 2
NumMessages == 2
MaxExecs == 4
MaxBotExecs == 2
MaxReconciles == 1
NumInboxCalls == 3

Sessions == {"s1", "s2"}
Owners == {"w1", "w2"}
OwnerOf == [w \in 1..3 |-> IF w = 1 THEN "w1" ELSE IF w = 2 THEN "w2" ELSE "w3"]
TaskIds == 1..NumTasks
CallIds == 1..NumCalls
WorkerIds == 1..NumWorkers
CancelIds == 1..NumCancels

\* lease length and the reconciliation ceiling, in clock ticks
LEASE_DURATION == 1
STALE_AFTER == 1
MAX_CONCURRENT_JOBS == 3

(***************************************************************************)
(* Store: statements of the repository                                     *)
(***************************************************************************)
ActiveStatuses == {"queued", "in_flight", "leased"}
TerminalStatuses == {"completed", "failed", "cancelled", "abandoned"}

RunIds(rs) == DOMAIN rs
JobIds(js) == DOMAIN js

\* UNIQUE(runs.idempotency_key): the insert fails when the key is taken
RunKeyFree(rs, key) == \A i \in DOMAIN rs : rs[i].idempotencyKey # key

\* repository.createRun: one INSERT
InsertRun(rs, sessionId, key, status) ==
  Append(rs, [sessionId |-> sessionId, idempotencyKey |-> key,
              status |-> status, startedAt |-> <<>>, finishedAt |-> <<>>])

\* repository.enqueueJob: one INSERT, status queued, no lease, attempts 0
InsertJob(js, runId, availableAt) ==
  Append(js, [runId |-> runId, status |-> "queued", leaseOwner |-> <<>>,
              leaseExpiresAt |-> <<>>, availableAt |-> availableAt, attempts |-> 0,
              lastError |-> <<>>])

\* repository.getRunByIdempotencyKey: the rows with the key (at most one)
getRunByIdempotencyKey(rs, key) == {i \in DOMAIN rs : rs[i].idempotencyKey = key}

\* the rows findActiveRunBySession's WHERE clause selects
ActiveRunsOfSession(rs, sessionId) ==
  {i \in DOMAIN rs : rs[i].sessionId = sessionId /\ rs[i].status \in ActiveStatuses}

\* a lookup that never finds an active run
NoActiveRun(rs, sessionId) == {}

\* repository.findActiveRunBySession: ORDER BY created_at LIMIT 1
findActiveRunBySession(rs, sessionId) ==
  LET rows == ActiveRunsOfSession(rs, sessionId)
  IN  IF rows = {} THEN {} ELSE {CHOOSE i \in rows : \A k \in rows : i <= k}

\* repository.getJobByRunId
getJobByRunId(js, runId) == {j \in DOMAIN js : js[j].runId = runId}

\* repository.markRunInFlight: unconditional UPDATE ... WHERE id = runId
markRunInFlight(rs, runId, startedAt) ==
  [rs EXCEPT ![runId].status = "in_flight", ![runId].startedAt = <<startedAt>>]

\* repository.finalizeRun: unconditional UPDATE ... WHERE id = runId
finalizeRun(rs, runId, status, finishedAt) ==
  [rs EXCEPT ![runId].status = status, ![runId].finishedAt = <<finishedAt>>]

\* repository.abandonRun: UPDATE ... WHERE id = runId AND status = 'in_flight'
abandonRun(rs, runId, finishedAt) ==
  IF rs[runId].status = "in_flight"
    THEN [rs EXCEPT ![runId].status = "abandoned", ![runId].finishedAt = <<finishedAt>>]
    ELSE rs

\* repository.listRunsByStatus
listRunsByStatus(rs, status) == {i \in DOMAIN rs : rs[i].status = status}

\* repository.completeJob: unconditional UPDATE ... WHERE id = jobId
completeJob(js, jobId) ==
  [js EXCEPT ![jobId].status = "completed", ![jobId].leaseOwner = <<>>,
             ![jobId].leaseExpiresAt = <<>>]

failJobWithoutError(js, jobId, error) == completeJob(js, jobId)

\* repository.failJob: unconditional UPDATE ... WHERE id = jobId
failJob(js, jobId, error) ==
  [js EXCEPT ![jobId].status = "failed", ![jobId].leaseOwner = <<>>,
             ![jobId].leaseExpiresAt = <<>>, ![jobId].lastError = <<error>>]

\* repository.requeueLeasedJobByRunId: UPDATE ... WHERE run_id = runId AND status = 'leased'
requeueLeasedJobByRunId(js, runId, t) ==
  [j \in DOMAIN js |->
     IF js[j].runId = runId /\ js[j].status = "leased"
       THEN [js[j] EXCEPT !.status = "queued", !.leaseOwner = <<>>,
                          !.leaseExpiresAt = <<>>, !.availableAt = t]
       ELSE js[j]]

\* repository.renewJobLease: UPDATE ... WHERE id = jobId AND status = 'leased'
renewJobLease(js, jobId, t) ==
  IF js[jobId].status = "leased"
    THEN [js EXCEPT ![jobId].leaseExpiresAt = <<t + LEASE_DURATION>>]
    ELSE js

\* repository.cancelRun, first statement: UPDATE runs ... WHERE id = runId
cancelRunUpdateRun(rs, runId, t) ==
  [rs EXCEPT ![runId].status = "cancelled", ![runId].finishedAt = <<t>>]

\* repository.cancelRun, second statement: UPDATE jobs ... WHERE run_id = runId
cancelRunUpdateJob(js, runId) ==
  [j \in DOMAIN js |->
     IF js[j].runId = runId
       THEN [js[j] EXCEPT !.status = "cancelled", !.leaseOwner = <<>>,
                          !.leaseExpiresAt = <<>>]
       ELSE js[j]]

\* a WHERE clause that tests the status alone
QueuedAtAnyTime(job, t) == job.status = "queued"

\* leaseNextJob, the WHERE clause of its first SELECT
LeaseEligible(job, t) ==
  /\ job.status = "queued"
  /\ job.availableAt <= t
  /\ (job.leaseExpiresAt = <<>> \/ job.leaseExpiresAt[1] <= t)

\* leaseNextJob, first statement: ORDER BY available_at, created_at LIMIT 1.
\* created_at does not decrease with the row index, so the index breaks ties.
LeaseCandidate(js, t) ==
  LET elig == {j \in DOMAIN js : LeaseEligible(js[j], t)}
  IN  {j \in elig : \A k \in elig :
         \/ js[j].availableAt < js[k].availableAt
         \/ (js[j].availableAt = js[k].availableAt /\ j <= k)}

\* leaseNextJob, second statement: the guarded UPDATE
LeaseUpdate(js, jobId, owner, t) ==
  IF js[jobId].status = "queued"
     /\ (js[jobId].leaseExpiresAt = <<>> \/ js[jobId].leaseExpiresAt[1] <= t)
    THEN [js EXCEPT ![jobId].status = "leased", ![jobId].leaseOwner = <<owner>>,
                    ![jobId].leaseExpiresAt = <<t + LEASE_DURATION>>,
                    ![jobId].attempts = @ + 1]
    ELSE js

\* leaseNextJob, third statement: SELECT ... WHERE id AND lease_owner = owner AND status = 'leased'
LeaseReselect(js, jobId, owner) ==
  {j \in {jobId} : js[j].leaseOwner = <<owner>> /\ js[j].status = "leased"}

\* appendRunEvent, first statement: coalesce(max(seq), 0) over the run's events
MaxSeq(evs, runId) ==
  LET seqs == {evs[i].seq : i \in {k \in DOMAIN evs : evs[k].runId = runId}}
  IN  IF seqs = {} THEN 0 ELSE CHOOSE m \in seqs : \A x \in seqs : x <= m

\* appendRunEvent, second statement: the INSERT
InsertRunEvent(evs, runId, seq, eventType, message) ==
  Append(evs, [runId |-> runId, seq |-> seq, eventType |-> eventType, message |-> message])

(***************************************************************************)
(* SpecStore: tasks calling the repository directly, their statements      *)
(* interleaved.  A task runs one repository method at a time.              *)
(***************************************************************************)
NumKeys == 3
KeyOf == [i \in 1..NumKeys |-> i]

IdleTask == [pc |-> "idle", owner |-> <<>>, t |-> 0, job |-> 0, runId |-> 0, nextSeq |-> 0]

NewLeaseHist == [timesQueued |-> 1, leasesReturned |-> 0]

\* history: the jobs a requeue statement flips back to queued
Requeued(js, runId) == {j \in DOMAIN js : js[j].runId = runId /\ js[j].status = "leased"}

NoteRequeued(h, js, runId) ==
  [j \in DOMAIN h |->
     IF j \in Requeued(js, runId) THEN [h[j] EXCEPT !.timesQueued = @ + 1] ELSE h[j]]

\* the components that a specification leaves out stay empty
NoHandler ==
  /\ config = <<>>
  /\ chatState = <<>>
  /\ chats = <<>>
  /\ sessions = <<>>
  /\ auditLogs = <<>>
  /\ lastCall = <<>>
  /\ enabledUntil = <<>>
  /\ handledCount = 0
  /\ engines = <<>>
  /\ enqueuedUnsafe = {}

NoMore == engineRun = <<>> /\ stream = <<>> /\ streamer = <<>> /\ decoder = <<>> /\ shutdown = <<>>

NoUnits ==
  /\ inboxCalls = <<>>
  /\ NoHandler
  /\ parser = <<>>
  /\ runner = <<>>
  /\ NoMore

InitStore ==
  /\ NoUnits
  /\ now = 0
  /\ runs = <<>>
  /\ jobs = <<>>
  /\ runEvents = <<>>
  /\ leaseHist = <<>>
  /\ tasks = [t \in TaskIds |-> IdleTask]
  /\ activeSessions = {}
  /\ creates = <<>>
  /\ workers = <<>>
  /\ cancels = <<>>
  /\ reconciler = <<>>
  /\ inbox = {}
  /\ updates = <<>>
  /\ supervisor = <<>>
  /\ activeJobs = {}
  /\ execs = <<>>

\* the clock advances
Tick ==
  /\ now < MaxTime
  /\ now' = now + 1
  /\ UNCHANGED <<unitVars, botVars, orchVars, storeVars, tasks>>

\* repository.createRun({sessionId, idempotencyKey, status: "queued"}): the
\* store is seeded with runs of distinct keys, the i-th run with the i-th key
StoreCreateRun(s) ==
  /\ Len(runs) < MaxStoreRuns
  /\ RunKeyFree(runs, KeyOf[Len(runs) + 1])
  /\ runs' = InsertRun(runs, s, KeyOf[Len(runs) + 1], "queued")
  /\ UNCHANGED <<unitVars, botVars, orchVars, now, jobs, runEvents, leaseHist, tasks>>

\* repository.enqueueJob({runId, availableAt: now}); UNIQUE(jobs.run_id)
StoreEnqueueJob(r) ==
  /\ r \in RunIds(runs)
  /\ getJobByRunId(jobs, r) = {}
  /\ jobs' = InsertJob(jobs, r, now)
  /\ leaseHist' = Append(leaseHist, NewLeaseHist)
  /\ UNCHANGED <<unitVars, botVars, orchVars, now, runs, runEvents, tasks>>

\* repository.requeueLeasedJobByRunId({runId, now})
StoreRequeue(r) ==
  /\ r \in RunIds(runs)
  /\ \A j \in Requeued(jobs, r) : leaseHist[j].timesQueued <= MaxRequeues
  /\ Requeued(jobs, r) # {}
  /\ jobs' = requeueLeasedJobByRunId(jobs, r, now)
  /\ leaseHist' = NoteRequeued(leaseHist, jobs, r)
  /\ UNCHANGED <<unitVars, botVars, orchVars, now, runs, runEvents, tasks>>

\* appendRunEvent: SELECT coalesce(max(seq), 0); nextSeq = maxSeq + 1
AppendRead(t, r) ==
  /\ tasks[t].pc = "idle"
  /\ r \in RunIds(runs)
  /\ Len(runEvents)
       + Cardinality({u \in TaskIds : tasks[u].pc = "append_insert"}) < MaxStoreEvents
  /\ tasks' = [tasks EXCEPT ![t].pc = "append_insert", ![t].runId = r,
                            ![t].nextSeq = MaxSeq(runEvents, r) + 1]
  /\ UNCHANGED <<unitVars, botVars, orchVars, now, storeVars>>

\* appendRunEvent: INSERT with seq = nextSeq; returns nextSeq
AppendInsert(t) ==
  /\ tasks[t].pc = "append_insert"
  /\ runEvents' = InsertRunEvent(runEvents, tasks[t].runId, tasks[t].nextSeq, "stdout", <<>>)
  /\ tasks' = [tasks EXCEPT ![t] = IdleTask]
  /\ UNCHANGED <<unitVars, botVars, orchVars, now, runs, jobs, leaseHist>>

\* leaseNextJob({owner, now}): the SELECT of the candidate; no candidate returns undefined
LeaseSelect(t, owner) ==
  /\ tasks[t].pc = "idle"
  /\ LET cand == LeaseCandidate(jobs, now)
     IN  IF cand = {}
           THEN tasks' = tasks
           ELSE tasks' = [tasks EXCEPT ![t].pc = "lease_update", ![t].owner = <<owner>>,
                                       ![t].t = now, ![t].job = CHOOSE j \in cand : TRUE]
  /\ jobs # <<>>
  /\ UNCHANGED <<unitVars, botVars, orchVars, now, storeVars>>

\* leaseNextJob: the guarded UPDATE
LeaseWrite(t) ==
  /\ tasks[t].pc = "lease_update"
  /\ jobs' = LeaseUpdate(jobs, tasks[t].job, tasks[t].owner[1], tasks[t].t)
  /\ tasks' = [tasks EXCEPT ![t].pc = "lease_reselect"]
  /\ UNCHANGED <<unitVars, botVars, orchVars, now, runs, runEvents, leaseHist>>

\* leaseNextJob: the SELECT of the leased row, which is the method's result
LeaseReturn(t) ==
  /\ tasks[t].pc = "lease_reselect"
  /\ leaseHist' = [j \in DOMAIN leaseHist |->
       IF j \in LeaseReselect(jobs, tasks[t].job, tasks[t].owner[1])
         THEN [leaseHist[j] EXCEPT !.leasesReturned = @ + 1] ELSE leaseHist[j]]
  /\ tasks' = [tasks EXCEPT ![t] = IdleTask]
  /\ UNCHANGED <<unitVars, botVars, orchVars, now, runs, jobs, runEvents>>

\* SpecAppend: appendRunEvent calls, their two statements interleaved
NextAppend ==
  \/ \E s \in Sessions : StoreCreateRun(s)
  \/ \E t \in TaskIds, r \in 1..MaxStoreRuns : AppendRead(t, r)
  \/ \E t \in TaskIds : AppendInsert(t)

SpecAppend == InitStore /\ [][NextAppend]_vars

\* SpecLease: leaseNextJob calls, their three statements interleaved with each
\* other and with requeues
NextLease ==
  \/ Tick
  \/ \E s \in Sessions : StoreCreateRun(s)
  \/ \E r \in 1..MaxStoreRuns : StoreEnqueueJob(r)
  \/ \E r \in 1..MaxStoreRuns : StoreRequeue(r)
  \/ \E t \in TaskIds, o \in Owners : LeaseSelect(t, o)
  \/ \E t \in TaskIds : LeaseWrite(t)
  \/ \E t \in TaskIds : LeaseReturn(t)

SpecLease == InitStore /\ [][NextLease]_vars

(***************************************************************************)
(* Claims about the store                                                  *)
(***************************************************************************)
EventsOf(r) == {i \in DOMAIN runEvents : runEvents[i].runId = r}

\* C3: the events of every run carry exactly the seq values 1..n, n the number
\* of events of the run, with no duplicate and no gap, whatever the
\* interleaving of the appendRunEvent calls.
C3_SeqGapFree ==
  \A r \in RunIds(runs) :
    /\ {runEvents[i].seq : i \in EventsOf(r)} = 1..Cardinality(EventsOf(r))
    /\ \A i, k \in EventsOf(r) : runEvents[i].seq = runEvents[k].seq => i = k

\* C4: a job is returned by at most one leaseNextJob call for each time it is
\* queued, and every returned lease has added one to its attempts counter.
C4_LeaseAtMostOnce ==
  \A j \in JobIds(jobs) :
    /\ leaseHist[j].leasesReturned <= leaseHist[j].timesQueued
    /\ leaseHist[j].leasesReturned <= jobs[j].attempts

(***************************************************************************)
(* SpecOrch: the server's RunOrchestrator over the repository.             *)
(* createRun, processNextLeasedJob and reconcileInFlightRuns are async     *)
(* methods called from concurrent requests; repository.cancelRun is called *)
(* by the cancel endpoint.                                                 *)
(***************************************************************************)
ExitStatuses == {"success", "error", "cancelled"}

NewCancel == [pc |-> "new", runId |-> 0, statusBefore |-> ""]

NewCall == [pc |-> "new", sessionId |-> "", key |-> 0, t |-> 0, runId |-> 0, res |-> "pending"]

IdleWorker ==
  [pc |-> "idle", owner |-> <<>>, t |-> 0, job |-> 0, run |-> 0, startedAt |-> 0,
   exit |-> "", events |-> 0, threw |-> FALSE, error |-> "", nextSeq |-> 0,
   raised |-> <<>>]

\* What a rejected executor.execute carries as error.message.
ExecutorMessages == {"engine crashed"}

IdleReconciler == [pc |-> "idle", t |-> 0, staleBeforeMs |-> 0, todo |-> <<>>,
                   abandonedRunIds |-> <<>>, requeuedJobCount |-> 0, calls |-> 0]

\* mapExitStatusToRunStatus
mapExitStatusToRunStatus(exitStatus) ==
  CASE exitStatus = "success" -> "completed"
    [] exitStatus = "cancelled" -> "cancelled"
    [] OTHER -> "failed"

\* the elements of a set of row ids in index (creation) order
RECURSIVE InOrder(_)
InOrder(S) ==
  IF S = {} THEN <<>>
  ELSE LET m == CHOOSE x \in S : \A y \in S : x <= y
       IN  <<m>> \o InOrder(S \ {m})

InitOrch ==
  /\ NoUnits
  /\ now = 0
  /\ runs = <<>>
  /\ jobs = <<>>
  /\ runEvents = <<>>
  /\ leaseHist = <<>>
  /\ tasks = <<>>
  /\ activeSessions = {}
  /\ creates = [c \in CallIds |-> NewCall]
  /\ workers = [w \in WorkerIds |-> IdleWorker]
  /\ cancels = [x \in CancelIds |-> NewCancel]
  /\ reconciler = IdleReconciler
  /\ inbox = {}
  /\ updates = <<>>
  /\ supervisor = <<>>
  /\ activeJobs = {}
  /\ execs = <<>>

\* createRun: getRunByIdempotencyKey; an existing run is returned, otherwise
\* assertSessionSingleFlight tests the in-memory set and issues findActiveRunBySession
CreateLookup(c, s, k) ==
  /\ creates[c].pc = "new"
  /\ LET existing == getRunByIdempotencyKey(runs, k)
         call == [creates[c] EXCEPT !.sessionId = s, !.key = k]
     IN  creates' = [creates EXCEPT ![c] =
           IF existing # {}
             THEN [call EXCEPT !.pc = "done", !.res = "returned",
                               !.runId = CHOOSE r \in existing : TRUE]
           ELSE IF s \in activeSessions
             THEN [call EXCEPT !.pc = "done", !.res = "SessionAlreadyActiveError"]
           ELSE [call EXCEPT !.pc = "find_active"]]
  /\ UNCHANGED <<unitVars, botVars, now, storeVars, tasks, activeSessions, workers, cancels, reconciler>>

\* createRun: findActiveRunBySession; an active run throws, otherwise now = Date.now()
\* and the run insert is issued
CreateFindActive(c) ==
  /\ creates[c].pc = "find_active"
  /\ creates' = [creates EXCEPT ![c] =
       IF findActiveRunBySession(runs, creates[c].sessionId) # {}
         THEN [@ EXCEPT !.pc = "done", !.res = "SessionAlreadyActiveError"]
         ELSE [@ EXCEPT !.pc = "insert_run", !.t = now]]
  /\ UNCHANGED <<unitVars, botVars, now, storeVars, tasks, activeSessions, workers, cancels, reconciler>>

\* createRun: repository.createRun; a taken idempotency key makes the INSERT throw
CreateInsertRun(c) ==
  /\ creates[c].pc = "insert_run"
  /\ IF RunKeyFree(runs, creates[c].key)
       THEN /\ runs' = InsertRun(runs, creates[c].sessionId, creates[c].key, "queued")
            /\ creates' = [creates EXCEPT ![c].pc = "insert_job", ![c].runId = Len(runs) + 1]
       ELSE /\ runs' = runs
            /\ creates' = [creates EXCEPT ![c].pc = "done", ![c].res = "UniqueConstraintError"]
  /\ UNCHANGED <<unitVars, botVars, now, jobs, runEvents, leaseHist, tasks, activeSessions, workers,
                 cancels, reconciler>>

\* createRun: repository.enqueueJob, then return {runId}
CreateInsertJob(c) ==
  /\ creates[c].pc = "insert_job"
  /\ jobs' = InsertJob(jobs, creates[c].runId, creates[c].t)
  /\ creates' = [creates EXCEPT ![c].pc = "done", ![c].res = "returned"]
  /\ UNCHANGED <<unitVars, botVars, now, runs, runEvents, leaseHist, tasks, activeSessions, workers,
                 cancels, reconciler>>

\* repository.cancelRun: UPDATE runs
CancelRunBegin(x, r) ==
  /\ cancels[x].pc = "new"
  /\ r \in RunIds(runs)
  /\ runs' = cancelRunUpdateRun(runs, r, now)
  /\ cancels' = [cancels EXCEPT ![x] = [pc |-> "update_job", runId |-> r,
                                        statusBefore |-> runs[r].status]]
  /\ UNCHANGED <<unitVars, botVars, now, jobs, runEvents, leaseHist, tasks, activeSessions, creates, workers,
                 reconciler>>

\* repository.cancelRun: UPDATE jobs
CancelRunEnd(x) ==
  /\ cancels[x].pc = "update_job"
  /\ jobs' = cancelRunUpdateJob(jobs, cancels[x].runId)
  /\ cancels' = [cancels EXCEPT ![x].pc = "done"]
  /\ UNCHANGED <<unitVars, botVars, now, runs, runEvents, leaseHist, tasks, activeSessions, creates, workers,
                 reconciler>>

WUnchanged == <<now, leaseHist, tasks, creates, cancels, reconciler>>

\* processNextLeasedJob: now = input.now ?? Date.now(); leaseNextJob's SELECT of
\* the candidate; without a candidate the call returns undefined
WorkerLeaseSelect(w, owner) ==
  /\ workers[w].pc = "idle"
  /\ LeaseCandidate(jobs, now) # {}
  /\ \A j \in LeaseCandidate(jobs, now) : jobs[j].attempts < MaxAttempts
  /\ workers' = [workers EXCEPT ![w].pc = "lease_update", ![w].owner = <<owner>>,
                                ![w].t = now, ![w].raised = <<>>,
                                ![w].job = CHOOSE j \in LeaseCandidate(jobs, now) : TRUE]
  /\ UNCHANGED <<unitVars, botVars, WUnchanged, runs, jobs, runEvents, activeSessions>>

\* leaseNextJob's guarded UPDATE
WorkerLeaseWrite(w) ==
  /\ workers[w].pc = "lease_update"
  /\ jobs' = LeaseUpdate(jobs, workers[w].job, workers[w].owner[1], workers[w].t)
  /\ workers' = [workers EXCEPT ![w].pc = "lease_reselect"]
  /\ UNCHANGED <<unitVars, botVars, WUnchanged, runs, runEvents, activeSessions>>

\* leaseNextJob's SELECT of the leased row; no row returns undefined, otherwise
\* getRunById is issued
WorkerLeaseReturn(w) ==
  /\ workers[w].pc = "lease_reselect"
  /\ workers' = [workers EXCEPT ![w] =
       IF LeaseReselect(jobs, workers[w].job, workers[w].owner[1]) = {}
         THEN IdleWorker
         ELSE [@ EXCEPT !.pc = "get_run"]]
  /\ UNCHANGED <<unitVars, botVars, WUnchanged, runs, jobs, runEvents, activeSessions>>

\* getRunById(leasedJob.runId); a session in activeSessions requeues the job,
\* otherwise getSessionById is issued.  (Rows of runs are never deleted.)
WorkerGetRun(w) ==
  /\ workers[w].pc = "get_run"
  /\ LET r == jobs[workers[w].job].runId
     IN  workers' = [workers EXCEPT ![w].run = r,
           ![w].pc = IF runs[r].sessionId \in activeSessions THEN "requeue" ELSE "get_session"]
  /\ UNCHANGED <<unitVars, botVars, WUnchanged, runs, jobs, runEvents, activeSessions>>

\* requeueLeasedJobByRunId({runId, now}); return undefined
WorkerRequeue(w) ==
  /\ workers[w].pc = "requeue"
  /\ jobs' = requeueLeasedJobByRunId(jobs, workers[w].run, workers[w].t)
  /\ workers' = [workers EXCEPT ![w] = IdleWorker]
  /\ UNCHANGED <<unitVars, botVars, WUnchanged, runs, runEvents, activeSessions>>

\* getSessionById (sessions are never deleted); activeSessions.add;
\* startedAt = Date.now(); markRunInFlight is issued
WorkerGetSession(w) ==
  /\ workers[w].pc = "get_session"
  /\ activeSessions' = activeSessions \cup {runs[workers[w].run].sessionId}
  /\ workers' = [workers EXCEPT ![w].pc = "mark_in_flight", ![w].startedAt = now]
  /\ UNCHANGED <<unitVars, botVars, WUnchanged, runs, jobs, runEvents>>

\* markRunInFlight; executor.execute is called
WorkerMarkInFlight(w) ==
  /\ workers[w].pc = "mark_in_flight"
  /\ runs' = markRunInFlight(runs, workers[w].run, workers[w].startedAt)
  /\ workers' = [workers EXCEPT ![w].pc = "executing"]
  /\ UNCHANGED <<unitVars, botVars, WUnchanged, jobs, runEvents, activeSessions>>

\* executor.execute resolves with {events, exitStatus, eventsPersisted}
WorkerExecuteReturn(w, exit, n, persisted) ==
  /\ workers[w].pc = "executing"
  /\ (persisted \/ Len(runEvents) + n <= MaxOrchEvents)
  /\ workers' = [workers EXCEPT ![w].exit = exit,
                                ![w].events = IF persisted THEN 0 ELSE n,
                                ![w].pc = IF persisted \/ n = 0 THEN "finalize" ELSE "append_read"]
  /\ UNCHANGED <<unitVars, botVars, WUnchanged, runs, jobs, runEvents, activeSessions>>

\* executor.execute rejects: the catch block appends one error event
WorkerExecuteThrow(w, message) ==
  /\ workers[w].pc = "executing"
  /\ Len(runEvents) < MaxOrchEvents
  /\ workers' = [workers EXCEPT ![w].threw = TRUE, ![w].error = message,
                                ![w].events = 1, ![w].pc = "append_read"]
  /\ UNCHANGED <<unitVars, botVars, WUnchanged, runs, jobs, runEvents, activeSessions>>

\* appendRunEvent: SELECT coalesce(max(seq), 0)
WorkerAppendRead(w) ==
  /\ workers[w].pc = "append_read"
  /\ workers' = [workers EXCEPT ![w].pc = "append_insert",
                                ![w].nextSeq = MaxSeq(runEvents, workers[w].run) + 1]
  /\ UNCHANGED <<unitVars, botVars, WUnchanged, runs, jobs, runEvents, activeSessions>>

\* appendRunEvent: INSERT; the loop goes on or finalizeRun is issued
WorkerAppendInsert(w) ==
  /\ workers[w].pc = "append_insert"
  /\ runEvents' = InsertRunEvent(runEvents, workers[w].run, workers[w].nextSeq,
                                 IF workers[w].threw THEN "error" ELSE "event",
                                 IF workers[w].threw THEN <<workers[w].error>> ELSE <<>>)
  /\ workers' = [workers EXCEPT ![w].events = @ - 1, ![w].nextSeq = 0,
                                ![w].pc = IF workers[w].events > 1 THEN "append_read"
                                          ELSE "finalize"]
  /\ UNCHANGED <<unitVars, botVars, WUnchanged, runs, jobs, activeSessions>>

\* finalizeRun: the mapped exit status, or failed in the catch block
WorkerFinalize(w) ==
  /\ workers[w].pc = "finalize"
  /\ runs' = finalizeRun(runs, workers[w].run,
                         IF workers[w].threw THEN "failed"
                         ELSE mapExitStatusToRunStatus(workers[w].exit), now)
  /\ workers' = [workers EXCEPT ![w].pc = "complete_job"]
  /\ UNCHANGED <<unitVars, botVars, WUnchanged, jobs, runEvents, activeSessions>>

\* completeJob and return, or failJob and rethrow in the catch block;
\* finally activeSessions.delete
WorkerCompleteJob(w) ==
  /\ workers[w].pc = "complete_job"
  /\ jobs' = IF workers[w].threw THEN failJob(jobs, workers[w].job, workers[w].error)
             ELSE completeJob(jobs, workers[w].job)
  /\ activeSessions' = activeSessions \ {runs[workers[w].run].sessionId}
  /\ workers' = [workers EXCEPT ![w] =
       [IdleWorker EXCEPT !.raised = IF workers[w].threw THEN <<workers[w].error>> ELSE <<>>]]
  /\ UNCHANGED <<unitVars, botVars, WUnchanged, runs, runEvents>>

RUnchanged == <<now, runEvents, leaseHist, tasks, activeSessions, creates, workers, cancels>>

IsStaleStrictly(run, t, staleBeforeMs) ==
  \/ staleBeforeMs <= 0
  \/ (run.startedAt # <<>> /\ t - run.startedAt[1] > staleBeforeMs)

\* a run is stale when staleBeforeMs <= 0 or now - startedAt >= staleBeforeMs
\* (an in_flight run has its startedAt set)
IsStale(run, t, staleBeforeMs) ==
  \/ staleBeforeMs <= 0
  \/ (run.startedAt # <<>> /\ t - run.startedAt[1] >= staleBeforeMs)

\* reconcileInFlightRuns({now, staleBeforeMs}): listRunsByStatus("in_flight"), filtered
ReconcileList(staleBeforeMs) ==
  /\ reconciler.pc = "idle"
  /\ reconciler.calls < MaxReconciles
  /\ LET stale == {r \in listRunsByStatus(runs, "in_flight") : IsStale(runs[r], now, staleBeforeMs)}
     IN  reconciler' = [IdleReconciler EXCEPT !.pc = IF stale # {} THEN "abandon" ELSE "idle",
                                             !.t = now,
                                             !.staleBeforeMs = staleBeforeMs,
                                             !.todo = InOrder(stale),
                                             !.calls = reconciler.calls + 1]
  /\ UNCHANGED <<unitVars, botVars, RUnchanged, runs, jobs>>

\* reconcileInFlightRuns: abandonRun of the next stale run
ReconcileAbandon ==
  /\ reconciler.pc = "abandon"
  /\ runs' = abandonRun(runs, Head(reconciler.todo), reconciler.t)
  /\ reconciler' = [reconciler EXCEPT !.pc = "requeue"]
  /\ UNCHANGED <<unitVars, botVars, RUnchanged, jobs>>

\* reconcileInFlightRuns: requeueLeasedJobByRunId; abandonedRunIds.push
ReconcileRequeue ==
  /\ reconciler.pc = "requeue"
  /\ jobs' = requeueLeasedJobByRunId(jobs, Head(reconciler.todo), reconciler.t)
  /\ reconciler' = [reconciler EXCEPT !.pc = "get_job",
                      !.abandonedRunIds = Append(@, Head(reconciler.todo))]
  /\ UNCHANGED <<unitVars, botVars, RUnchanged, runs>>

\* reconcileInFlightRuns: getJobByRunId counts the queued job; next run, or
\* return {abandonedRunIds, requeuedJobCount}
ReconcileGetJob ==
  /\ reconciler.pc = "get_job"
  /\ LET r == Head(reconciler.todo)
         queued == \E j \in getJobByRunId(jobs, r) : jobs[j].status = "queued"
     IN  reconciler' =
           [reconciler EXCEPT !.pc = IF Len(reconciler.todo) > 1 THEN "abandon" ELSE "idle",
                              !.todo = Tail(@),
                              !.requeuedJobCount = IF queued THEN @ + 1 ELSE @]
  /\ UNCHANGED <<unitVars, botVars, RUnchanged, runs, jobs>>

\* createRun and cancelRun requests alone
NextCreate ==
  \/ \E c \in CallIds, s \in Sessions, k \in 1..NumOrchKeys : CreateLookup(c, s, KeyOf[k])
  \/ \E c \in CallIds : CreateFindActive(c)
  \/ \E c \in CallIds : CreateInsertRun(c)
  \/ \E c \in CallIds : CreateInsertJob(c)
  \/ \E x \in CancelIds, r \in CallIds : CancelRunBegin(x, r)
  \/ \E x \in CancelIds : CancelRunEnd(x)

SpecCreate == InitOrch /\ [][NextCreate]_vars

NextOrch ==
  \/ \E c \in 1..NumOrchCalls, s \in Sessions, k \in 1..NumOrchKeys : CreateLookup(c, s, KeyOf[k])
  \/ \E c \in 1..NumOrchCalls : CreateFindActive(c)
  \/ \E c \in 1..NumOrchCalls : CreateInsertRun(c)
  \/ \E c \in 1..NumOrchCalls : CreateInsertJob(c)
  \/ \E x \in CancelIds, r \in 1..NumOrchCalls : CancelRunBegin(x, r)
  \/ \E x \in CancelIds : CancelRunEnd(x)
  \/ \E w \in WorkerIds : WorkerLeaseSelect(w, OwnerOf[w])
  \/ \E w \in WorkerIds : WorkerLeaseWrite(w)
  \/ \E w \in WorkerIds : WorkerLeaseReturn(w)
  \/ \E w \in WorkerIds : WorkerGetRun(w)
  \/ \E w \in WorkerIds : WorkerRequeue(w)
  \/ \E w \in WorkerIds : WorkerGetSession(w)
  \/ \E w \in WorkerIds : WorkerMarkInFlight(w)
  \/ \E w \in WorkerIds, e \in ExitStatuses, n \in 0..MaxExecEvents, p \in BOOLEAN :
       WorkerExecuteReturn(w, e, n, p)
  \/ \E w \in WorkerIds, message \in ExecutorMessages : WorkerExecuteThrow(w, message)
  \/ \E w \in WorkerIds : WorkerAppendRead(w)
  \/ \E w \in WorkerIds : WorkerAppendInsert(w)
  \/ \E w \in WorkerIds : WorkerFinalize(w)
  \/ \E w \in WorkerIds : WorkerCompleteJob(w)
  \/ \E st \in 0..MaxStaleBefore : ReconcileList(st)
  \/ ReconcileAbandon
  \/ ReconcileRequeue
  \/ ReconcileGetJob

SpecOrch == InitOrch /\ [][NextOrch]_vars

\* The orchestrator with its calls one after the other: a call starts only
\* when no other call is between two of its awaits, except that a worker may
\* stay in executor.execute while other calls run.  Executions return no
\* events here and nobody calls cancelRun.
Busy ==
  \/ \E c \in DOMAIN creates : creates[c].pc \notin {"new", "done"}
  \/ \E w \in DOMAIN workers : workers[w].pc \notin {"idle", "executing"}
  \/ reconciler.pc # "idle"

NextSerial ==
  \/ ~Busy /\ Tick
  \/ ~Busy /\ \E c \in CallIds, s \in Sessions, k \in 1..NumOrchKeys : CreateLookup(c, s, KeyOf[k])
  \/ \E c \in CallIds : CreateFindActive(c)
  \/ \E c \in CallIds : CreateInsertRun(c)
  \/ \E c \in CallIds : CreateInsertJob(c)
  \/ ~Busy /\ \E w \in WorkerIds : WorkerLeaseSelect(w, OwnerOf[w])
  \/ \E w \in WorkerIds : WorkerLeaseWrite(w)
  \/ \E w \in WorkerIds : WorkerLeaseReturn(w)
  \/ \E w \in WorkerIds : WorkerGetRun(w)
  \/ \E w \in WorkerIds : WorkerRequeue(w)
  \/ \E w \in WorkerIds : WorkerGetSession(w)
  \/ \E w \in WorkerIds : WorkerMarkInFlight(w)
  \/ ~Busy /\ \E w \in WorkerIds, e \in ExitStatuses : WorkerExecuteReturn(w, e, 0, TRUE)
  \/ ~Busy /\ \E w \in WorkerIds, message \in ExecutorMessages : WorkerExecuteThrow(w, message)
  \/ \E w \in WorkerIds : WorkerAppendRead(w)
  \/ \E w \in WorkerIds : WorkerAppendInsert(w)
  \/ \E w \in WorkerIds : WorkerFinalize(w)
  \/ \E w \in WorkerIds : WorkerCompleteJob(w)
  \/ ~Busy /\ \E st \in 0..MaxStaleBefore : ReconcileList(st)
  \/ ReconcileAbandon
  \/ ReconcileRequeue
  \/ ReconcileGetJob

SpecSerial == InitOrch /\ [][NextSerial]_vars

(***************************************************************************)
(* Claims about the orchestrator                                           *)
(***************************************************************************)
\* C1: no session ever has more than one run in queued, in_flight or leased.
C1_SingleFlight ==
  \A s \in Sessions : Cardinality(ActiveRunsOfSession(runs, s)) <= 1

\* C2: createRun calls that have finished with the same idempotency key have
\* all returned, with the same runId; the key has exactly one run, and that
\* run at most one job.
C2_CreateRunIdempotent ==
  \A c \in CallIds :
    creates[c].pc = "done" =>
      /\ creates[c].res = "returned"
      /\ \A d \in CallIds :
           (creates[d].pc = "done" /\ creates[d].key = creates[c].key)
             => creates[d].runId = creates[c].runId
      /\ Cardinality(getRunByIdempotencyKey(runs, creates[c].key)) = 1
      /\ Cardinality(getJobByRunId(jobs, creates[c].runId)) <= 1

\* no processNextLeasedJob, cancelRun or reconcileInFlightRuns call is part-way
\* through its statements on job j or its run
Settled(j) ==
  /\ \A w \in WorkerIds : workers[w].pc = "idle" \/ workers[w].job # j
  /\ \A x \in CancelIds : cancels[x].pc = "update_job" => cancels[x].runId # jobs[j].runId
  /\ reconciler.pc = "idle"

\* C8: once the calls working on a job have returned, a job that is completed,
\* failed or cancelled has a run with the same status.
C8_JobMirrorsRun ==
  \A j \in JobIds(jobs) :
    (Settled(j) /\ jobs[j].status \in {"completed", "failed", "cancelled"})
      => runs[jobs[j].runId].status = jobs[j].status

(***************************************************************************)
(* SpecBot: the bot process.  Telegram updates are handled by              *)
(* TelegramCommandHandler.handleUpdate, which enqueues through runGateway; *)
(* the worker loop leases jobs and starts executeJob without awaiting it.  *)
(***************************************************************************)
UpdateIds == 1..NumUpdates
OwnerChat == 1
BotOwner == "bot"
BotSessions == {"s1"}

NewUpdate == [pc |-> "new", updateId |-> 0, messageId |-> 0, sessionId |-> "", t |-> 0,
              runId |-> 0, accepted |-> FALSE, res |-> "pending", reply |-> 0]

IdleSupervisor == [pc |-> "list", t |-> 0, todo |-> <<>>, job |-> 0]

\* handleRun: idempotencyKey = `tg:${message.chat.id}:${message.message_id}`
TelegramKey(chatId, messageId) == <<"tg", chatId, messageId>>

\* executeJobInner: exitStatus success -> completed, cancelled -> cancelled, else failed
RunStatusOfExit(exitStatus) ==
  IF exitStatus = "success" THEN "completed"
  ELSE IF exitStatus = "cancelled" THEN "cancelled" ELSE "failed"

\* the executeJob calls that have not settled
LiveExecs == {e \in DOMAIN execs : execs[e].pc # "settled"}

InitBot ==
  /\ NoUnits
  /\ now = 0
  /\ runs = <<>>
  /\ jobs = <<>>
  /\ runEvents = <<>>
  /\ leaseHist = <<>>
  /\ tasks = <<>>
  /\ activeSessions = {}
  /\ creates = <<>>
  /\ workers = <<>>
  /\ cancels = [x \in CancelIds |-> NewCancel]
  /\ reconciler = <<>>
  /\ inbox = {}
  /\ updates = [u \in UpdateIds |-> NewUpdate]
  /\ supervisor = IdleSupervisor
  /\ activeJobs = {}
  /\ execs = <<>>

BUnchanged == <<unitVars, leaseHist, tasks, activeSessions, creates, workers, reconciler, runEvents>>

\* handleUpdate for a private text message of the owner that is no command:
\* insertTelegramInbox's SELECT; a stored update id returns [] (no action)
HandleUpdate(u, updateId, messageId, s) ==
  /\ updates[u].pc = "new"
  /\ updates' = [updates EXCEPT ![u] =
       IF updateId \in inbox
         THEN [@ EXCEPT !.pc = "done", !.updateId = updateId, !.messageId = messageId,
                        !.res = "duplicate"]
         ELSE [@ EXCEPT !.pc = "inbox_insert", !.updateId = updateId,
                        !.messageId = messageId, !.sessionId = s]]
  /\ UNCHANGED <<BUnchanged, now, runs, jobs, cancels, inbox, supervisor, activeJobs, execs>>

\* insertTelegramInbox's INSERT (update_id is the primary key); then
\* getUnsafeUntil, handleRun, ensureProject, ensureSession, and enqueueRun is called:
\* now = Date.now(), repository.createRun is issued
HandleInboxInsert(u) ==
  /\ updates[u].pc = "inbox_insert"
  /\ IF updates[u].updateId \in inbox
       THEN /\ inbox' = inbox
            /\ updates' = [updates EXCEPT ![u].pc = "done", ![u].res = "threw"]
       ELSE /\ inbox' = inbox \cup {updates[u].updateId}
            /\ updates' = [updates EXCEPT ![u].pc = "create_run", ![u].accepted = TRUE,
                                          ![u].t = now]
  /\ UNCHANGED <<BUnchanged, now, runs, jobs, cancels, supervisor, activeJobs, execs>>

\* runGateway.enqueueRun: repository.createRun; a taken idempotency key makes
\* the INSERT throw, and handleUpdate rejects
GatewayCreateRun(u) ==
  /\ updates[u].pc = "create_run"
  /\ LET key == TelegramKey(OwnerChat, updates[u].messageId)
     IN  IF RunKeyFree(runs, key)
           THEN /\ runs' = InsertRun(runs, updates[u].sessionId, key, "queued")
                /\ updates' = [updates EXCEPT ![u].pc = "enqueue_job",
                                              ![u].runId = Len(runs) + 1]
           ELSE /\ runs' = runs
                /\ updates' = [updates EXCEPT ![u].pc = "done", ![u].res = "threw"]
  /\ UNCHANGED <<BUnchanged, now, jobs, cancels, inbox, supervisor, activeJobs, execs>>

\* runGateway.enqueueRun: repository.enqueueJob, return {runId}; handleRun's audit
GatewayEnqueueJob(u) ==
  /\ updates[u].pc = "enqueue_job"
  /\ jobs' = InsertJob(jobs, updates[u].runId, updates[u].t)
  /\ updates' = [updates EXCEPT ![u].pc = "audit"]
  /\ UNCHANGED <<BUnchanged, now, runs, cancels, inbox, supervisor, activeJobs, execs>>

\* handleRun: the audit record is written; state.lastRunId = runId;
\* the reply `Run queued: ${runId}` is returned
HandleRunReply(u) ==
  /\ updates[u].pc = "audit"
  /\ updates' = [updates EXCEPT ![u].pc = "done", ![u].res = "replied",
                                ![u].reply = updates[u].runId]
  /\ UNCHANGED <<BUnchanged, now, runs, jobs, cancels, inbox, supervisor, activeJobs, execs>>

\* worker loop: where the loop goes once the reconciliation of this round is
\* over: a full activeJobs set delays and starts the next round, otherwise
\* leaseNextJob is called
AfterReconcile == IF Cardinality(activeJobs) >= MAX_CONCURRENT_JOBS THEN "list" ELSE "lease_select"

\* worker loop: now = Date.now(); listRunsByStatus("in_flight"); the runs with
\* now - startedAt >= 60 * 60 * 1000 are abandoned and requeued one by one
SupervisorList ==
  /\ supervisor.pc = "list"
  /\ LET stale == {r \in listRunsByStatus(runs, "in_flight") : IsStale(runs[r], now, STALE_AFTER)}
     IN  supervisor' = [IdleSupervisor EXCEPT !.t = now, !.todo = InOrder(stale),
                          !.pc = IF stale # {} THEN "abandon" ELSE AfterReconcile]
  /\ UNCHANGED <<BUnchanged, now, runs, jobs, cancels, inbox, updates, activeJobs, execs>>

\* worker loop: abandonRun of the next stale run
SupervisorAbandon ==
  /\ supervisor.pc = "abandon"
  /\ runs' = abandonRun(runs, Head(supervisor.todo), supervisor.t)
  /\ supervisor' = [supervisor EXCEPT !.pc = "requeue"]
  /\ UNCHANGED <<BUnchanged, now, jobs, cancels, inbox, updates, activeJobs, execs>>

\* worker loop: requeueLeasedJobByRunId of that run; then the next stale run,
\* or the activeJobs test
SupervisorRequeue ==
  /\ supervisor.pc = "requeue"
  /\ jobs' = requeueLeasedJobByRunId(jobs, Head(supervisor.todo), supervisor.t)
  /\ supervisor' = [supervisor EXCEPT !.todo = Tail(@),
                      !.pc = IF Len(supervisor.todo) > 1 THEN "abandon" ELSE AfterReconcile]
  /\ UNCHANGED <<BUnchanged, now, runs, cancels, inbox, updates, activeJobs, execs>>

\* leaseNextJob({owner: leaseOwner, now}): the SELECT of the candidate; without
\* one the loop delays and starts the next round
SupervisorLeaseSelect ==
  /\ supervisor.pc = "lease_select"
  /\ LET cand == LeaseCandidate(jobs, supervisor.t)
     IN  supervisor' = IF cand = {} THEN IdleSupervisor
                       ELSE [supervisor EXCEPT !.pc = "lease_update",
                                               !.job = CHOOSE j \in cand : TRUE]
  /\ UNCHANGED <<BUnchanged, now, runs, jobs, cancels, inbox, updates, activeJobs, execs>>

\* leaseNextJob: the guarded UPDATE
SupervisorLeaseWrite ==
  /\ supervisor.pc = "lease_update"
  /\ jobs' = LeaseUpdate(jobs, supervisor.job, BotOwner, supervisor.t)
  /\ supervisor' = [supervisor EXCEPT !.pc = "lease_reselect"]
  /\ UNCHANGED <<BUnchanged, now, runs, cancels, inbox, updates, activeJobs, execs>>

\* leaseNextJob: the SELECT of the leased row.  No row: delay, next round.  A
\* row: activeJobs.add(job.id); executeJob(job) is started and not awaited (it
\* reads the run, its session and its project, rows that are never deleted, and
\* issues markRunInFlight); next round
SupervisorLeaseReturn ==
  /\ supervisor.pc = "lease_reselect"
  /\ IF LeaseReselect(jobs, supervisor.job, BotOwner) = {}
       THEN UNCHANGED <<activeJobs, execs>>
       ELSE /\ activeJobs' = activeJobs \cup {supervisor.job}
            /\ execs' = Append(execs, [job |-> supervisor.job,
                                       run |-> jobs[supervisor.job].runId,
                                       pc |-> "mark_in_flight", exit |-> ""])
  /\ supervisor' = IdleSupervisor
  /\ UNCHANGED <<BUnchanged, now, runs, jobs, cancels, inbox, updates>>

\* executeJobInner: startedAt = Date.now(); markRunInFlight; getChatUnsafeUntil;
\* runClaude / runOpenCode starts the engine process
ExecMarkInFlight(e) ==
  /\ execs[e].pc = "mark_in_flight"
  /\ runs' = markRunInFlight(runs, execs[e].run, now)
  /\ execs' = [execs EXCEPT ![e].pc = "running"]
  /\ UNCHANGED <<BUnchanged, now, jobs, cancels, inbox, updates, supervisor, activeJobs>>

\* executeJob's interval timer: renewJobLease
ExecRenewLease(e) ==
  /\ execs[e].pc \in {"mark_in_flight", "running", "finalize", "complete_job", "finish_run"}
  /\ jobs' = renewJobLease(jobs, execs[e].job, now)
  /\ jobs' # jobs
  /\ UNCHANGED <<BUnchanged, now, runs, cancels, inbox, updates, supervisor, activeJobs, execs>>

\* the engine process ends without a cancel request of the poll: it exits by
\* itself (success, error), starting it throws (the catch block makes it an
\* error), or the idle-timeout watchdog cancels it (cancelled); finalizeRun is
\* issued
ExecExit(e, exitStatus) ==
  /\ execs[e].pc = "running"
  /\ execs' = [execs EXCEPT ![e].pc = "finalize", ![e].exit = exitStatus]
  /\ UNCHANGED <<BUnchanged, now, runs, jobs, cancels, inbox, updates, supervisor, activeJobs>>

\* the poll timer of runClaude / runOpenCode: isCancelled reads the run; on status
\* cancelled the handle is cancelled and the process ends with status cancelled
ExecPollCancelled(e) ==
  /\ execs[e].pc = "running"
  /\ runs[execs[e].run].status = "cancelled"
  /\ execs' = [execs EXCEPT ![e].pc = "finalize", ![e].exit = "cancelled"]
  /\ UNCHANGED <<BUnchanged, now, runs, jobs, cancels, inbox, updates, supervisor, activeJobs>>

\* executeJobInner: finalizeRun with the status of the exit
ExecFinalize(e) ==
  /\ execs[e].pc = "finalize"
  /\ runs' = finalizeRun(runs, execs[e].run, RunStatusOfExit(execs[e].exit), now)
  /\ execs' = [execs EXCEPT ![e].pc = "complete_job"]
  /\ UNCHANGED <<BUnchanged, now, jobs, cancels, inbox, updates, supervisor, activeJobs>>

\* executeJobInner: completeJob; streamer.finishRun is called
ExecCompleteJob(e) ==
  /\ execs[e].pc = "complete_job"
  /\ jobs' = completeJob(jobs, execs[e].job)
  /\ execs' = [execs EXCEPT ![e].pc = "finish_run"]
  /\ UNCHANGED <<BUnchanged, now, runs, cancels, inbox, updates, supervisor, activeJobs>>

\* executeJob settles: clearInterval, and the loop's finally handler runs
\* activeJobs.delete(job.id)
ExecSettle(e) ==
  /\ execs[e].pc = "finish_run"
  /\ activeJobs' = activeJobs \ {execs[e].job}
  /\ execs' = [execs EXCEPT ![e].pc = "settled"]
  /\ UNCHANGED <<BUnchanged, now, runs, jobs, cancels, inbox, updates, supervisor>>

\* bot.start() hands the next update (a message, a stop_run button press) to
\* its handler when the handler of the previous one has returned
PollingIdle ==
  /\ \A u \in UpdateIds : updates[u].pc \in {"new", "done"}
  /\ \A x \in CancelIds : cancels[x].pc \in {"new", "done"}

\* the worker loop and the executions it starts
PoolStep ==
  \/ SupervisorList
  \/ SupervisorAbandon
  \/ SupervisorRequeue
  \/ SupervisorLeaseWrite
  \/ SupervisorLeaseReturn
  \/ \E e \in DOMAIN execs : ExecMarkInFlight(e)
  \/ \E e \in DOMAIN execs : ExecRenewLease(e)
  \/ \E e \in DOMAIN execs, x \in ExitStatuses : ExecExit(e, x)
  \/ \E e \in DOMAIN execs : ExecFinalize(e)
  \/ \E e \in DOMAIN execs : ExecCompleteJob(e)
  \/ \E e \in DOMAIN execs : ExecSettle(e)

\* the handling of a text message up to its reply
ChatStep ==
  \/ \E u \in UpdateIds : HandleInboxInsert(u)
  \/ \E u \in UpdateIds : GatewayCreateRun(u)
  \/ \E u \in UpdateIds : GatewayEnqueueJob(u)
  \/ \E u \in UpdateIds : HandleRunReply(u)

\* SpecChat: the owner's messages, with any update id and message id, and stop_run
NextChat ==
  \/ \E u \in UpdateIds, i \in 1..NumUpdateIds, m \in 1..NumMessages, s \in BotSessions :
       PollingIdle /\ HandleUpdate(u, i, m, s)
  \/ ChatStep
  \/ \E x \in CancelIds, r \in UpdateIds : PollingIdle /\ CancelRunBegin(x, r)
  \/ \E x \in CancelIds : CancelRunEnd(x)

SpecChat == InitBot /\ [][NextChat]_vars

\* SpecBot: the u-th update is a new message (update id u, message id u); the
\* worker loop runs beside the update handlers
NextBot ==
  \/ Tick
  \/ \E u \in UpdateIds, s \in BotSessions : PollingIdle /\ HandleUpdate(u, u, u, s)
  \/ ChatStep
  \/ \E x \in CancelIds, r \in UpdateIds : PollingIdle /\ CancelRunBegin(x, r)
  \/ \E x \in CancelIds : CancelRunEnd(x)
  \/ (Len(execs) < MaxBotExecs /\ SupervisorLeaseSelect)
  \/ PoolStep
  \/ \E e \in DOMAIN execs : ExecPollCancelled(e)

SpecBot == InitBot /\ [][NextBot]_vars

\* SpecPool: as SpecBot, without stop_run (no run is ever cancelled, the poll
\* never finds one) and with more executions
NextPool ==
  \/ Tick
  \/ \E u \in UpdateIds, s \in BotSessions : PollingIdle /\ HandleUpdate(u, u, u, s)
  \/ ChatStep
  \/ (Len(execs) < MaxExecs /\ SupervisorLeaseSelect)
  \/ PoolStep

SpecPool == InitBot /\ [][NextPool]_vars

(***************************************************************************)
(* Claims about the bot                                                    *)
(***************************************************************************)
\* C5: a run whose status is completed, failed, cancelled or abandoned keeps
\* that status in every later step.
C5_TerminalIsFinal ==
  [][\A r \in DOMAIN runs :
       runs[r].status \in TerminalStatuses => runs'[r].status = runs[r].status]_vars

\* nothing is left to happen to run r: no execution of it is live, the worker
\* loop is between two rounds, and its job is neither queued nor leased
AtRest(r) ==
  /\ \A e \in LiveExecs : execs[e].run # r
  /\ supervisor.pc = "list"
  /\ \A j \in getJobByRunId(jobs, r) : jobs[j].status \notin {"queued", "leased"}

\* C6: a run that cancelRun was called on while it was queued, leased or
\* in_flight has status cancelled once nothing is left to happen to it.
C6_CancelNotLost ==
  \A x \in CancelIds :
    (/\ cancels[x].pc = "done"
     /\ cancels[x].statusBefore \in ActiveStatuses
     /\ AtRest(cancels[x].runId))
      => runs[cancels[x].runId].status = "cancelled"

\* the executions whose engine process is live, for the runs of session s
EnginesOfSession(s) ==
  {e \in DOMAIN execs : execs[e].pc = "running" /\ runs[execs[e].run].sessionId = s}

\* C7: no two engine processes are live at once for runs of the same session.
C7_OneEnginePerSession ==
  \A s \in BotSessions : Cardinality(EnginesOfSession(s)) <= 1

\* C9: never more than MAX_CONCURRENT_JOBS executeJob calls are unsettled.
C9_BoundedConcurrency == Cardinality(LiveExecs) <= MAX_CONCURRENT_JOBS

\* C10: two accepted updates with the same message id and different update ids
\* are both answered, with the same run; that message has one run and one job.
C10_ChatEnqueueIdempotent ==
  \A u, v \in UpdateIds :
    (/\ updates[u].pc = "done" /\ updates[u].accepted
     /\ updates[v].pc = "done" /\ updates[v].accepted
     /\ updates[u].messageId = updates[v].messageId
     /\ updates[u].updateId # updates[v].updateId)
      => /\ updates[u].res = "replied" /\ updates[v].res = "replied"
         /\ updates[u].reply = updates[v].reply
         /\ LET rs == getRunByIdempotencyKey(runs, TelegramKey(OwnerChat, updates[u].messageId))
            IN  /\ Cardinality(rs) = 1
                /\ \A r \in rs : Cardinality(getJobByRunId(jobs, r)) = 1

(***************************************************************************)
(* SpecInbox: concurrent callers of repository.insertTelegramInbox.        *)
(***************************************************************************)
InboxCallIds == 1..NumInboxCalls

NewInboxCall == [pc |-> "new", updateId |-> 0, res |-> "pending"]

InitInbox ==
  /\ now = 0
  /\ runs = <<>>
  /\ jobs = <<>>
  /\ runEvents = <<>>
  /\ leaseHist = <<>>
  /\ tasks = <<>>
  /\ activeSessions = {}
  /\ creates = <<>>
  /\ workers = <<>>
  /\ cancels = <<>>
  /\ reconciler = <<>>
  /\ inbox = {}
  /\ updates = <<>>
  /\ supervisor = <<>>
  /\ activeJobs = {}
  /\ execs = <<>>
  /\ inboxCalls = [t \in InboxCallIds |-> NewInboxCall]
  /\ NoHandler
  /\ parser = <<>>
  /\ runner = <<>>
  /\ NoMore

\* insertTelegramInbox: the SELECT by update_id; a stored row returns false
InboxSelect(t, updateId) ==
  /\ inboxCalls[t].pc = "new"
  /\ inboxCalls' = [inboxCalls EXCEPT ![t] =
       IF updateId \in inbox
         THEN [pc |-> "done", updateId |-> updateId, res |-> "false"]
         ELSE [pc |-> "insert", updateId |-> updateId, res |-> "pending"]]
  /\ UNCHANGED <<now, storeVars, tasks, orchVars, botVars, handlerVars, parser, runner, moreVars>>

\* insertTelegramInbox: the INSERT, then return true; update_id is the primary
\* key, so the INSERT of a stored update id throws
InboxInsert(t) ==
  /\ inboxCalls[t].pc = "insert"
  /\ IF inboxCalls[t].updateId \in inbox
       THEN /\ inbox' = inbox
            /\ inboxCalls' = [inboxCalls EXCEPT ![t].pc = "done", ![t].res = "threw"]
       ELSE /\ inbox' = inbox \cup {inboxCalls[t].updateId}
            /\ inboxCalls' = [inboxCalls EXCEPT ![t].pc = "done", ![t].res = "true"]
  /\ UNCHANGED <<now, storeVars, tasks, orchVars, updates, supervisor, activeJobs, execs,
               handlerVars, parser, runner, moreVars>>

NextInbox ==
  \/ \E t \in InboxCallIds, i \in 1..NumUpdateIds : InboxSelect(t, i)
  \/ \E t \in InboxCallIds : InboxInsert(t)

SpecInbox == InitInbox /\ [][NextInbox]_vars

\* the calls for update id i that have returned or thrown
InboxDone(i) == {t \in InboxCallIds : inboxCalls[t].pc = "done" /\ inboxCalls[t].updateId = i}

\* C11: of the finished insertTelegramInbox calls for one update id, exactly
\* one returned true and all the others returned false, and the id is stored.
C11_FirstWriterWins ==
  \A i \in 1..NumUpdateIds :
    InboxDone(i) # {} =>
      /\ Cardinality({t \in InboxDone(i) : inboxCalls[t].res = "true"}) = 1
      /\ \A t \in InboxDone(i) : inboxCalls[t].res \in {"true", "false"}
      /\ i \in inbox

(***************************************************************************)
(* SpecHandler: TelegramCommandHandler.handleUpdate as the bot wires it    *)
(* (createTelegramDataStore, runGateway, auditSink), one update at a time. *)
(* Times are milliseconds.                                                 *)
(***************************************************************************)
MinuteMs == 60000
MaxHandled == 2
MaxMinutes == 1
MaxClockSteps == 2

ChatTypes == {"private", "group"}
Senders == {"owner", "other"}

\* message.text: none, bare text, or /command with its arguments
Texts ==
  {[command |-> "<non-text>", prompt |-> "", minutes |-> <<>>],
   [command |-> "", prompt |-> "hi", minutes |-> <<>>],
   [command |-> "status", prompt |-> "", minutes |-> <<>>],
   [command |-> "reload_projects", prompt |-> "", minutes |-> <<>>]}
  \cup {[command |-> c, prompt |-> a, minutes |-> <<>>] : c \in {"run", "continue"}, a \in {"", "hi"}}
  \cup {[command |-> "enable_unsafe", prompt |-> "", minutes |-> m] :
          m \in {<<>>} \cup {<<n>> : n \in 0..MaxMinutes}}

\* what the gate turns away is tried with one text and with no text
GateTexts == {x \in Texts : x.command = "<non-text>" \/ (x.command = "run" /\ x.prompt # "")}

Messages ==
  {msg \in [chatType : ChatTypes, from : Senders, messageId : UpdateIds, text : Texts] :
     (msg.chatType = "private" /\ msg.from = "owner") \/ msg.text \in GateTexts}

\* the messages update i can carry: distinct updates carry distinct messages
MessagesOf(i) == {msg \in Messages : msg.messageId = i}

InitHandler ==
  /\ now = 0
  /\ runs = <<>>
  /\ jobs = <<>>
  /\ runEvents = <<>>
  /\ leaseHist = <<>>
  /\ tasks = <<>>
  /\ activeSessions = {}
  /\ creates = <<>>
  /\ workers = <<>>
  /\ cancels = <<>>
  /\ reconciler = <<>>
  /\ inbox = {}
  /\ updates = <<>>
  /\ supervisor = <<>>
  /\ activeJobs = {}
  /\ execs = <<>>
  /\ inboxCalls = <<>>
  /\ config \in [killSwitch : BOOLEAN, projects : {0, 1}]
  /\ chatState = <<>>
  /\ chats = <<>>
  /\ sessions = <<>>
  /\ auditLogs = <<>>
  /\ lastCall = <<>>
  /\ enabledUntil = <<>>
  /\ handledCount = 0
  /\ engines = <<>>
  /\ enqueuedUnsafe = {}
  /\ parser = <<>>
  /\ runner = <<>>
  /\ NoMore

\* getState: the state of a chat seen for the first time
NewChatState ==
  [projectId |-> <<>>, sessionId |-> <<>>, unsafeUntil |-> <<>>, lastRunId |-> <<>>]

getState(cs, chatId) == IF chatId \in DOMAIN cs THEN cs[chatId] ELSE NewChatState

Reply(text) == [type |-> "reply", text |-> text, banner |-> <<>>]

AuditRecord(command, decision, reason) ==
  [command |-> command, decision |-> decision, reason |-> reason, runId |-> <<>>]

\* message.text?.split(/\s+/)[0] ?? "<non-text>" (a command without its slash)
FirstWord(text) == IF text.command = "" THEN text.prompt ELSE text.command

\* the state one handleUpdate call works on
World(chatId) ==
  [state |-> getState(chatState, chatId), chats |-> chats, sessions |-> sessions,
   runs |-> runs, jobs |-> jobs, audits |-> <<>>, actions |-> <<>>,
   enqueues |-> 0, threw |-> FALSE]

Answer(w, text) == [w EXCEPT !.actions = <<Reply(text)>>]

Audit(w, command, decision, reason) ==
  [w EXCEPT !.audits = Append(@, AuditRecord(command, decision, reason))]

\* this.audit({command: "run", runId, decision: "allow"})
AuditRun(w, runId) ==
  [w EXCEPT !.audits = Append(@, [AuditRecord("run", "allow", "") EXCEPT !.runId = runId])]

ensureProject(w) ==
  IF w.state.projectId # <<>> \/ config.projects = 0
    THEN w
    ELSE [w EXCEPT !.state.projectId = <<"p1">>]

\* repository.upsertChatByExternalChatId: a stored row keeps its unsafe_until
upsertChatByExternalChatId(cs, chatId) ==
  [c \in DOMAIN cs \cup {chatId} |->
     IF c \in DOMAIN cs THEN cs[c] ELSE [unsafeUntil |-> <<>>]]

\* repository.setChatUnsafeUntil: UPDATE ... WHERE external_chat_id = chatId
setChatUnsafeUntil(cs, chatId, unsafeUntil) ==
  [c \in DOMAIN cs |-> IF c = chatId THEN [cs[c] EXCEPT !.unsafeUntil = unsafeUntil] ELSE cs[c]]

\* repository.getChatUnsafeUntil: the stored number, or undefined
getChatUnsafeUntil(cs, chatId) ==
  IF chatId \in DOMAIN cs THEN cs[chatId].unsafeUntil ELSE <<>>

\* store.setUnsafeUntil: nothing is stored while no project is configured
setUnsafeUntil(cs, chatId, unsafeUntil) ==
  IF config.projects = 0
    THEN cs
    ELSE setChatUnsafeUntil(upsertChatByExternalChatId(cs, chatId), chatId, <<unsafeUntil>>)

SessionsOfProject(ss, projectId) == {i \in DOMAIN ss : ss[i].projectId = projectId}

ensureSession(w, chatId) ==
  IF w.state.sessionId # <<>>
    THEN w
    ELSE LET found == SessionsOfProject(w.sessions, w.state.projectId[1])
         IN  IF found # {}
               THEN [w EXCEPT !.state.sessionId = <<CHOOSE i \in found : \A k \in found : i <= k>>]
               ELSE [w EXCEPT !.chats = upsertChatByExternalChatId(@, chatId),
                              !.sessions = Append(@, [projectId |-> w.state.projectId[1],
                                                      chatId |-> <<chatId>>]),
                              !.state.sessionId = <<Len(w.sessions) + 1>>]

\* runGateway.enqueueRun: createRun then enqueueJob; a taken idempotency key
\* makes createRun throw
enqueueRun(w, key, t) ==
  IF RunKeyFree(w.runs, key)
    THEN [w EXCEPT !.runs = InsertRun(@, w.state.sessionId[1], key, "queued"),
                   !.jobs = InsertJob(@, Len(w.runs) + 1, t),
                   !.enqueues = @ + 1,
                   !.state.lastRunId = <<Len(w.runs) + 1>>]
    ELSE [w EXCEPT !.threw = TRUE, !.enqueues = @ + 1]

\* handleRun without the kill-switch test
handleRunUnconditional(w, chatId, messageId, prompt, t) ==
  IF prompt = "" THEN Answer(w, "Usage: /run <text>")
  ELSE LET w1 == ensureProject(w)
       IN  IF w1.state.projectId = <<>> THEN Answer(w1, "No projects configured.")
           ELSE LET w2 == enqueueRun(ensureSession(w1, chatId), TelegramKey(chatId, messageId), t)
                IN  IF w2.threw THEN w2
                    ELSE Answer(AuditRun(w2, w2.state.lastRunId), "Run queued")

handleRun(w, chatId, messageId, prompt, t) ==
  IF prompt = "" THEN Answer(w, "Usage: /run <text>")
  ELSE IF config.killSwitch
    THEN Answer(Audit(w, "run", "deny", "kill-switch"),
                "Maintenance mode: run execution is currently disabled.")
  ELSE LET w1 == ensureProject(w)
       IN  IF w1.state.projectId = <<>> THEN Answer(w1, "No projects configured.")
           ELSE LET w2 == enqueueRun(ensureSession(w1, chatId), TelegramKey(chatId, messageId), t)
                IN  IF w2.threw THEN w2
                    ELSE Answer(AuditRun(w2, w2.state.lastRunId), "Run queued")

handleContinue(w, chatId, messageId, prompt, t) ==
  LET w1 == ensureProject(w)
  IN  IF w1.state.projectId = <<>> THEN Answer(w1, "No projects configured.")
      ELSE IF config.killSwitch
        THEN Answer(w1, "Maintenance mode: run execution is currently disabled.")
      ELSE LET w2 == ensureSession(w1, chatId)
           IN  IF prompt = "" THEN Answer(w2, "Session set to continue mode")
               ELSE LET w3 == enqueueRun(w2, TelegramKey(chatId, messageId), t)
                    IN  IF w3.threw THEN w3
                        ELSE Answer(w3, "Continuing latest session. Run queued")

\* /enable_unsafe <minutes> with Number(args[0]) finite and positive
\* (Number(args[0]) of a missing argument is NaN)
ValidMinutes(minutes) == minutes # <<>> /\ minutes[1] > 0

EnablesUnsafe(text) == text.command = "enable_unsafe" /\ ValidMinutes(text.minutes)

handleEnableUnsafe(w, chatId, minutes, t) ==
  IF ~ValidMinutes(minutes)
    THEN Answer(w, "Usage: /enable_unsafe <minutes>")
    ELSE LET unsafeUntil == t + minutes[1] * MinuteMs
         IN  Answer([w EXCEPT !.state.unsafeUntil = <<unsafeUntil>>,
                              !.chats = setUnsafeUntil(@, chatId, unsafeUntil)],
                    "UNSAFE MODE enabled")

handleStatus(w) == Answer(w, "status")

decorateUnsafeBanner(w, t) ==
  IF w.state.unsafeUntil = <<>> \/ w.state.unsafeUntil[1] <= t
    THEN w
    ELSE [w EXCEPT !.actions =
            [i \in DOMAIN w.actions |-> [w.actions[i] EXCEPT !.banner = w.state.unsafeUntil]]]

\* store.listProjects: the configured projects, in the order of the table
ProjectIds == <<"p1", "p2">>

listProjects == SubSeq(ProjectIds, 1, config.projects)

ProjectFound(projectId) == \E i \in DOMAIN listProjects : listProjects[i] = projectId

\* store.createSession for this chat in the state's project, selected afterwards
createSession(w, chatId) ==
  [w EXCEPT !.chats = upsertChatByExternalChatId(@, chatId),
            !.sessions = Append(@, [projectId |-> w.state.projectId[1], chatId |-> <<chatId>>]),
            !.state.sessionId = <<Len(w.sessions) + 1>>]

\* /use that keeps the selected session
handleUseProjectKeepingSession(w, arg) ==
  IF arg = <<>> THEN Answer(w, "Usage: /use <project_id>")
  ELSE IF ~ProjectFound(arg[1]) THEN Answer(w, "Unknown project")
  ELSE Answer([w EXCEPT !.state.projectId = arg], "Active project set")

\* /use <project_id>
handleUseProject(w, arg) ==
  IF arg = <<>> THEN Answer(w, "Usage: /use <project_id>")
  ELSE IF ~ProjectFound(arg[1]) THEN Answer(w, "Unknown project")
  ELSE Answer([w EXCEPT !.state.projectId = arg, !.state.sessionId = <<>>], "Active project set")

\* /use_session <session_id>
handleUseSession(w, arg) ==
  IF arg = <<>> THEN Answer(w, "Usage: /use_session <session_id>")
  ELSE IF arg[1] \notin DOMAIN w.sessions THEN Answer(w, "Unknown session")
  ELSE Answer([w EXCEPT !.state.projectId = <<w.sessions[arg[1]].projectId>>,
                        !.state.sessionId = arg], "Active session set")

\* /newsession [engine]
handleNewSession(w, chatId, arg) ==
  LET w1 == ensureProject(w)
  IN  IF w1.state.projectId = <<>> THEN Answer(w1, "No projects configured.")
      ELSE IF arg # <<>> /\ arg[1] \notin {"claude", "opencode"}
        THEN Answer(w1, "Usage: /newsession <claude|opencode> [name]")
      ELSE Answer(createSession(w1, chatId), "Session created")

\* /attach <engine_session_id> (the engine session id of a session row is not
\* part of the model)
handleAttach(w, chatId, arg) ==
  IF arg = <<>> THEN Answer(w, "Usage: /attach <engine_session_id>")
  ELSE LET w1 == ensureProject(w)
       IN  IF w1.state.projectId = <<>> THEN Answer(w1, "No projects configured.")
           ELSE Answer(ensureSession(w1, chatId), "Attached engine session")

EditKeyboard(text) == [type |-> "edit_keyboard", text |-> text, banner |-> <<>>]

\* renderDashboard: ensureProject, then one edit_keyboard action
renderDashboard(w) == [ensureProject(w) EXCEPT !.actions = <<EditKeyboard("Dashboard")>>]

\* renderSessionsSubmenu
renderSessionsSubmenu(w) ==
  LET w1 == ensureProject(w)
  IN  IF w1.state.projectId = <<>> THEN renderDashboard(w1)
      ELSE [w1 EXCEPT !.actions = <<EditKeyboard("Sessions")>>]

\* handleCallbackQuery(chatId, callbackData, messageId), callbackData being
\* "<action>:<value>"
handleCallbackQuery(w0, chatId, data, t) ==
  LET w == [w0 EXCEPT !.state.unsafeUntil = getChatUnsafeUntil(w0.chats, chatId)]
      a == data.action
      v == data.value
  IN  CASE a = "proj" ->
             renderDashboard(IF v # <<>> /\ ProjectFound(v[1])
                               THEN [w EXCEPT !.state.projectId = v, !.state.sessionId = <<>>]
                               ELSE w)
        [] a = "newsession" ->
             LET w1 == ensureProject(w)
             IN  renderDashboard(IF w1.state.projectId # <<>> THEN createSession(w1, chatId) ELSE w1)
        [] a \in {"continue", "cliattach"} ->
             LET w1 == ensureProject(w)
             IN  renderDashboard(IF w1.state.projectId # <<>> THEN ensureSession(w1, chatId) ELSE w1)
        [] a = "session" ->
             renderDashboard(IF v # <<>> /\ v[1] \in DOMAIN w.sessions
                               THEN [w EXCEPT !.state.projectId = <<w.sessions[v[1]].projectId>>,
                                              !.state.sessionId = v]
                               ELSE w)
        [] a = "sessions" -> renderSessionsSubmenu(w)
        [] a = "unsafe" ->
             renderDashboard(IF v # <<>> /\ v[1] > 0
                               THEN [w EXCEPT !.state.unsafeUntil = <<t + v[1] * MinuteMs>>,
                                              !.chats = setUnsafeUntil(@, chatId, t + v[1] * MinuteMs)]
                               ELSE w)
        [] a = "unsafe_off" ->
             renderDashboard([w EXCEPT !.state.unsafeUntil = <<>>,
                                       !.chats = setChatUnsafeUntil(@, chatId, <<>>)])
        [] OTHER -> renderDashboard(w)

\* handleUpdate after the inbox accepted the update
Dispatch(w0, chatId, msg, t) ==
  IF msg.text.command = "<non-text>" THEN w0
  ELSE LET w == [w0 EXCEPT !.state.unsafeUntil = getChatUnsafeUntil(w0.chats, chatId)]
           c == msg.text.command
       IN  IF c = "" THEN decorateUnsafeBanner(handleRun(w, chatId, msg.messageId, msg.text.prompt, t), t)
           ELSE IF c = "reload_projects" THEN w
           ELSE decorateUnsafeBanner(
                  CASE c = "run" -> handleRun(w, chatId, msg.messageId, msg.text.prompt, t)
                    [] c = "continue" -> handleContinue(w, chatId, msg.messageId, msg.text.prompt, t)
                    [] c = "enable_unsafe" -> handleEnableUnsafe(w, chatId, msg.text.minutes, t)
                    [] c = "use" -> handleUseProject(w, msg.text.arg)
                    [] c = "use_session" -> handleUseSession(w, msg.text.arg)
                    [] c = "newsession" -> handleNewSession(w, chatId, msg.text.arg)
                    [] c = "attach" -> handleAttach(w, chatId, msg.text.arg)
                    [] OTHER -> handleStatus(w), t)

\* an unsafe test that still holds at the instant of expiry
UnsafeUntilInclusive(unsafeUntil, t) == unsafeUntil # <<>> /\ unsafeUntil[1] >= t

\* isToolUnsafeEnabled: typeof unsafeUntil === "number" && unsafeUntil > now
isToolUnsafeEnabled(unsafeUntil, t) == unsafeUntil # <<>> /\ unsafeUntil[1] > t

\* function f with f[k] set to v, k added to the domain if new
Put(f, k, v) == [x \in DOMAIN f \cup {k} |-> IF x = k THEN v ELSE f[x]]

\* a gate that looks at the sender before the chat type
GateBySenderFirst(msg) ==
  IF msg.from = "owner" THEN "owner"
  ELSE IF msg.chatType # "private" THEN "group-or-non-private-chat"
  ELSE "non-owner"

\* handleUpdate's gate: the deny reason, or "owner"
Gate(msg) ==
  IF msg.chatType # "private" THEN "group-or-non-private-chat"
  ELSE IF msg.from # "owner" THEN "non-owner"
  ELSE "owner"

\* the inbox check of a handler that takes every update for new
AlwaysAccepted(ib, updateId) == TRUE

\* insertTelegramInbox called with no other call under way: false for a stored
\* update id, true (and the row is stored) otherwise
insertTelegramInbox(ib, updateId) == updateId \notin ib

\* handleUpdate, from the gate to the returned actions
handleUpdate(updateId, msg, t) ==
  LET w == World(OwnerChat)
  IN  CASE Gate(msg) = "group-or-non-private-chat" ->
             Audit(w, FirstWord(msg.text), "deny", "group-or-non-private-chat")
        [] Gate(msg) = "non-owner" ->
             Answer(Audit(w, FirstWord(msg.text), "deny", "non-owner"),
                    "Access denied: owner only.")
        [] OTHER -> IF insertTelegramInbox(inbox, updateId)
                      THEN Dispatch(w, OwnerChat, msg, t)
                      ELSE w

\* handleUpdate reached getState
Touched(updateId, msg) ==
  /\ Gate(msg) = "owner"
  /\ insertTelegramInbox(inbox, updateId)
  /\ msg.text.command # "<non-text>"

\* one update is handled from handleUpdate's entry to its return (or rejection)
HandleMessage(updateId, msg) ==
  /\ handledCount < MaxHandled
  /\ LET w == handleUpdate(updateId, msg, now)
     IN  /\ inbox' = IF Gate(msg) = "owner" THEN inbox \cup {updateId} ELSE inbox
         /\ chatState' = IF Touched(updateId, msg) THEN Put(chatState, OwnerChat, w.state)
                         ELSE chatState
         /\ chats' = w.chats
         /\ sessions' = w.sessions
         /\ runs' = w.runs
         /\ jobs' = w.jobs
         /\ auditLogs' = auditLogs \o w.audits
         /\ lastCall' = <<[updateId |-> updateId, msg |-> msg, t |-> now,
                           again |-> updateId \in inbox,
                           touched |-> Touched(updateId, msg),
                           actions |-> IF w.threw THEN <<>> ELSE w.actions,
                           threw |-> w.threw, enqueues |-> w.enqueues,
                           audits |-> w.audits, inboxBefore |-> inbox,
                           stateBefore |-> chatState, expiry |-> enabledUntil]>>
         /\ enabledUntil' =
              IF Touched(updateId, msg) /\ EnablesUnsafe(msg.text)
                THEN <<now + msg.text.minutes[1] * MinuteMs>>
                ELSE enabledUntil
         /\ handledCount' = handledCount + 1
         /\ enqueuedUnsafe' =
              IF w.enqueues = 1 /\ ~w.threw /\ isToolUnsafeEnabled(w.state.unsafeUntil, now)
                THEN enqueuedUnsafe \cup {Len(w.runs)}
                ELSE enqueuedUnsafe
  /\ UNCHANGED <<now, runEvents, leaseHist, tasks, orchVars, updates, supervisor,
                 activeJobs, execs, inboxCalls, config, engines, parser, runner, moreVars>>

\* Date.now() advances by half a minute
ClockAdvance ==
  /\ now < MaxClockSteps * (MinuteMs \div 2)
  /\ now' = now + MinuteMs \div 2
  /\ UNCHANGED <<storeVars, tasks, orchVars, botVars, unitVars>>

\* the handler with the clock standing still
NextHandler ==
  \E i \in UpdateIds : \E msg \in MessagesOf(i) : HandleMessage(i, msg)

SpecHandler == InitHandler /\ [][NextHandler]_vars

OwnerMessagesOf(i) == {msg \in MessagesOf(i) : Gate(msg) = "owner"}

\* the handler with the owner's messages, while time passes
NextBanner ==
  \/ \E i \in UpdateIds : \E msg \in OwnerMessagesOf(i) : HandleMessage(i, msg)
  \/ ClockAdvance

SpecBanner == InitHandler /\ [][NextBanner]_vars

\* the latest handleUpdate call
Last == lastCall[1]

\* the latest call was made for an update of the owner in a private chat
LastFromOwner ==
  /\ lastCall # <<>>
  /\ Last.msg.chatType = "private"
  /\ Last.msg.from = "owner"

\* C12: when an update of the owner is delivered again under the same
\* update_id, the later delivery returns no actions, does not call enqueueRun
\* and leaves the per-chat state as it was; the first delivery alone acts.
C12_DuplicateUpdateIgnored ==
  (LastFromOwner /\ Last.again) =>
     /\ ~Last.threw
     /\ Last.actions = <<>>
     /\ Last.enqueues = 0
     /\ Last.audits = <<>>
     /\ chatState = Last.stateBefore

\* a bare text was delivered twice: the first delivery queued run 1, the
\* second has just been handled
C12_Witness ==
  /\ LastFromOwner
  /\ Last.again
  /\ Last.msg.text.command = ""
  /\ Len(runs) = 1
  /\ OwnerChat \in DOMAIN chatState
  /\ chatState[OwnerChat].lastRunId = <<1>>

\* C13: an update from a chat that is not private returns no actions; a private
\* update of another sender returns the one reply "Access denied: owner only.";
\* either way one deny audit record is written (reason
\* group-or-non-private-chat or non-owner), the inbox gets no row, enqueueRun is
\* not called and the per-chat state is unchanged.
C13_OwnerPrivateGate ==
  (lastCall # <<>> /\ ~LastFromOwner) =>
     /\ ~Last.threw
     /\ Last.actions = IF Last.msg.chatType # "private" THEN <<>>
                       ELSE <<Reply("Access denied: owner only.")>>
     /\ Len(Last.audits) = 1
     /\ Last.audits[1].decision = "deny"
     /\ Last.audits[1].reason = IF Last.msg.chatType # "private"
                                  THEN "group-or-non-private-chat" ELSE "non-owner"
     /\ inbox = Last.inboxBefore
     /\ Last.enqueues = 0
     /\ chatState = Last.stateBefore

\* the owner has a chat state and a queued run; then /run hi of another sender
\* in a private chat was denied
C13_Witness ==
  /\ lastCall # <<>>
  /\ Last.msg.chatType = "private"
  /\ Last.msg.from = "other"
  /\ Last.msg.text.command = "run"
  /\ Len(Last.actions) = 1
  /\ OwnerChat \in DOMAIN chatState
  /\ Len(runs) = 1

\* the texts that ask for a run: bare text and /run <text>
IsRunRequest(text) == text.command = "" \/ (text.command = "run" /\ text.prompt # "")

IsContinueRequest(text) == text.command = "continue" /\ text.prompt # ""

Maintenance == "Maintenance mode: run execution is currently disabled."

TextsOf(actions) == [i \in DOMAIN actions |-> actions[i].text]

\* what C14 says of /run <text> and bare text while the kill switch is on
KillSwitchDeniesRun ==
  (Last.touched /\ IsRunRequest(Last.msg.text)) =>
     /\ TextsOf(Last.actions) = <<Maintenance>>
     /\ Last.audits = <<AuditRecord("run", "deny", "kill-switch")>>

\* C14: while killSwitchDisableRuns is true no handled message calls enqueueRun;
\* /run <text> and bare text get the maintenance-mode reply and one deny audit
\* record with reason kill-switch; /continue <text> gets the maintenance-mode
\* reply when a project is configured and "No projects configured." otherwise.
C14_KillSwitchBlocksRuns ==
  (lastCall # <<>> /\ config.killSwitch) =>
     /\ Last.enqueues = 0
     /\ runs = <<>>
     /\ jobs = <<>>
     /\ KillSwitchDeniesRun
     /\ (Last.touched /\ IsContinueRequest(Last.msg.text)) =>
           TextsOf(Last.actions) =
             <<IF config.projects = 0 THEN "No projects configured." ELSE Maintenance>>

\* C14 as stated: /continue <text> always gets the maintenance-mode reply
C14_AsStated ==
  (lastCall # <<>> /\ config.killSwitch) =>
     /\ Last.enqueues = 0
     /\ KillSwitchDeniesRun
     /\ (Last.touched /\ IsContinueRequest(Last.msg.text)) =>
           TextsOf(Last.actions) = <<Maintenance>>

\* kill switch on, a project configured: a bare text was refused, then
\* /continue hi got the maintenance-mode reply
C14_Witness ==
  /\ lastCall # <<>>
  /\ config.killSwitch
  /\ config.projects = 1
  /\ Last.touched
  /\ IsContinueRequest(Last.msg.text)
  /\ TextsOf(Last.actions) = <<Maintenance>>
  /\ AuditRecord("run", "deny", "kill-switch") \in {auditLogs[i] : i \in DOMAIN auditLogs}

\* C16: after /enable_unsafe n was handled at t0, every action returned for an
\* accepted message of the owner handled at t carries the banner "UNSAFE MODE
\* (expires <ISO of t0 + n*60000>)" if t < t0 + n*60000 and no banner
\* otherwise, unless that message enables unsafe mode again.
C16_BannerFollowsTTL ==
  (lastCall # <<>> /\ Last.touched /\ Last.expiry # <<>> /\ ~EnablesUnsafe(Last.msg.text)) =>
     \A i \in DOMAIN Last.actions :
        Last.actions[i].banner = IF Last.t < Last.expiry[1] THEN Last.expiry ELSE <<>>

(***************************************************************************)
(* SpecUnsafe: the handler switches unsafe mode on and off and enqueues    *)
(* runs while the bot's executeJobInner starts them.                       *)
(***************************************************************************)
CLAUDE_SAFE_ALLOWED_TOOLS == {"Read", "Glob", "Grep"}
CLAUDE_UNSAFE_ALLOWED_TOOLS == {"Bash", "Read", "Edit", "Write", "Glob", "Grep"}

\* buildClaudeCommandSpec: the tools of --tools and --allowedTools
buildClaudeCommandSpec(toolPolicy) ==
  IF toolPolicy = "unsafe" THEN CLAUDE_UNSAFE_ALLOWED_TOOLS ELSE CLAUDE_SAFE_ALLOWED_TOOLS

\* the messages of this specification: bare text and /enable_unsafe <minutes>
UnsafeMessagesOf(i) ==
  {msg \in MessagesOf(i) :
     /\ Gate(msg) = "owner"
     /\ msg.text.command = "" \/ EnablesUnsafe(msg.text)}

\* a session the server's POST /api/sessions created has no chat
ServerSession == [projectId |-> "p1", chatId |-> <<>>]

InitUnsafe ==
  /\ now = 0
  /\ runs = <<>>
  /\ jobs = <<>>
  /\ runEvents = <<>>
  /\ leaseHist = <<>>
  /\ tasks = <<>>
  /\ activeSessions = {}
  /\ creates = <<>>
  /\ workers = <<>>
  /\ cancels = <<>>
  /\ reconciler = <<>>
  /\ inbox = {}
  /\ updates = <<>>
  /\ supervisor = <<>>
  /\ activeJobs = {}
  /\ execs = <<>>
  /\ inboxCalls = <<>>
  /\ config = [killSwitch |-> FALSE, projects |-> 1]
  /\ chatState = <<>>
  /\ chats = <<>>
  /\ sessions \in {<<>>, <<ServerSession>>}
  /\ auditLogs = <<>>
  /\ lastCall = <<>>
  /\ enabledUntil = <<>>
  /\ handledCount = 0
  /\ engines = <<>>
  /\ enqueuedUnsafe = {}
  /\ parser = <<>>
  /\ runner = <<>>
  /\ NoMore

UUnchanged ==
  <<runEvents, leaseHist, tasks, orchVars, botVars, inboxCalls, config, sessions,
    auditLogs, lastCall, parser, runner, moreVars>>

\* handleCallbackQuery "unsafe_off": state.unsafeUntil = undefined, clearUnsafeUntil
UnsafeOff ==
  /\ handledCount < MaxHandled
  /\ chatState' = Put(chatState, OwnerChat,
                      [getState(chatState, OwnerChat) EXCEPT !.unsafeUntil = <<>>])
  /\ chats' = setChatUnsafeUntil(chats, OwnerChat, <<>>)
  /\ enabledUntil' = <<>>
  /\ handledCount' = handledCount + 1
  /\ UNCHANGED <<UUnchanged, now, runs, jobs, engines, enqueuedUnsafe>>

\* executeJobInner of a queued run: getRunById, getSessionById, getProject,
\* startedAt = Date.now(), markRunInFlight is issued
JobStart(r) ==
  /\ r \notin DOMAIN engines
  /\ runs[r].status = "queued"
  /\ runs' = markRunInFlight(runs, r, now)
  /\ engines' = Put(engines, r, [pc |-> "decide", startedAt |-> now,
                                 unsafe |-> FALSE, tools |-> {}])
  /\ UNCHANGED <<UUnchanged, now, jobs, chatState, chats, enabledUntil, handledCount,
                 enqueuedUnsafe>>

\* executeJobInner: getChatUnsafeUntil of the session's chat, isToolUnsafeEnabled,
\* runClaude builds the command
JobDecide(r) ==
  /\ engines[r].pc = "decide"
  /\ LET session == sessions[runs[r].sessionId]
         unsafeUntil == IF session.chatId # <<>>
                          THEN getChatUnsafeUntil(chats, session.chatId[1])
                          ELSE <<>>
         unsafe == isToolUnsafeEnabled(unsafeUntil, engines[r].startedAt)
     IN  engines' = [engines EXCEPT ![r] =
           [@ EXCEPT !.pc = "running", !.unsafe = unsafe,
                     !.tools = buildClaudeCommandSpec(IF unsafe THEN "unsafe" ELSE "safe")]]
  /\ UNCHANGED <<UUnchanged, now, runs, jobs, chatState, chats, enabledUntil, handledCount,
                 enqueuedUnsafe>>

NextUnsafe ==
  \/ \E i \in UpdateIds : \E msg \in UnsafeMessagesOf(i) : HandleMessage(i, msg)
  \/ UnsafeOff
  \/ ClockAdvance
  \/ \E r \in DOMAIN runs : JobStart(r)
  \/ \E r \in DOMAIN engines : JobDecide(r)

SpecUnsafe == InitUnsafe /\ [][NextUnsafe]_vars

\* the persisted unsafeUntil of the chat of run r's session exceeds t
ChatUnsafeAfter(r, t) ==
  LET chat == sessions[runs[r].sessionId].chatId
  IN  /\ chat # <<>>
      /\ chat[1] \in DOMAIN chats
      /\ chats[chat[1]].unsafeUntil # <<>>
      /\ chats[chat[1]].unsafeUntil[1] > t

\* C15: when executeJob decides the tool policy of a run, it takes the unsafe
\* policy (tools Bash,Read,Edit,Write,Glob,Grep) exactly if the unsafeUntil
\* stored for the chat of the run's session is greater than the run's start
\* time, and the safe policy (tools Read,Glob,Grep) otherwise, whatever the
\* mode was when the run was enqueued.
C15_PolicyDecidedAtStart ==
  [][\A r \in DOMAIN engines :
       (engines[r].pc = "decide" /\ engines'[r].pc = "running") =>
          /\ engines'[r].unsafe = ChatUnsafeAfter(r, engines[r].startedAt)
          /\ engines'[r].tools = IF ChatUnsafeAfter(r, engines[r].startedAt)
                                   THEN {"Bash", "Read", "Edit", "Write", "Glob", "Grep"}
                                   ELSE {"Read", "Glob", "Grep"}]_vars

\* a run enqueued while unsafe mode was on was started at the instant the mode
\* expired and runs with the safe tools
C15_Witness ==
  \E r \in DOMAIN engines :
     /\ r \in enqueuedUnsafe
     /\ engines[r].pc = "running"
     /\ enabledUntil = <<engines[r].startedAt>>
     /\ ~engines[r].unsafe
     /\ engines[r].tools = {"Read", "Glob", "Grep"}

(***************************************************************************)
(* SpecParser: one engine event parser (generic, Claude stream-json or     *)
(* OpenCode JSONL) fed chunks of lines and finished.  A line is modelled   *)
(* by what JSON.parse and the event mapping make of it.                    *)
(***************************************************************************)
MaxChunkLines == 2
MaxPushes == 2
MaxFinishes == 2

ParserKinds == {"generic", "claude", "opencode"}

EngineRunStatus == {"success", "error", "cancelled", "unknown"}

\* the lines of the engine's output: blank; no JSON; the JSON value null; a
\* normalized text_delta; run_finished with a status; Claude's result line;
\* OpenCode's completed line
Lines ==
  {[type |-> t, status |-> ""] : t \in {"blank", "malformed", "null", "text_delta"}}
  \cup {[type |-> "run_finished", status |-> x] : x \in {"success", "bogus"}}
  \cup {[type |-> "result", status |-> x] : x \in {"success", "error"}}
  \cup {[type |-> "completed", status |-> "cancelled"]}

\* a chunk: the lines it completes and the unterminated text it ends with
\* (given as the line that text is when nothing follows)
TailLines == {l \in Lines : l.type \in {"null", "text_delta"} \/ l.status = "success"}

Chunks ==
  {c \in [lines : UNION {[1..n -> Lines] : n \in 0..MaxChunkLines},
          tail : {<<>>} \cup {<<l>> : l \in TailLines}] :
     c.lines # <<>> \/ c.tail # <<>>}

asRunStatus(value) == IF value \in {"success", "error", "cancelled"} THEN value ELSE "unknown"

Event(type, status) == [type |-> type, status |-> status]

\* parseNormalizedEngineEvent: the event, or null
parseNormalizedEngineEvent(line) ==
  CASE line.type = "text_delta" -> <<Event("text_delta", "")>>
    [] line.type = "run_finished" -> <<Event("run_finished", asRunStatus(line.status))>>
    [] OTHER -> <<>>

\* translateClaudeLineToEvents: a result line gives run_finished, after an
\* error event if the result is an error
translateClaudeLineToEvents(line) ==
  IF line.type = "result"
    THEN IF line.status = "error"
           THEN <<Event("error", ""), Event("run_finished", "error")>>
           ELSE <<Event("run_finished", IF line.status = "success" THEN "success" ELSE "unknown")>>
    ELSE <<>>

\* mapOpenCodeEvent
mapOpenCodeEvent(line) ==
  IF parseNormalizedEngineEvent(line) # <<>> THEN parseNormalizedEngineEvent(line)
  ELSE IF line.type = "completed" THEN <<Event("run_finished", asRunStatus(line.status))>>
  ELSE <<>>

\* the events one line stands for, before the run_finished filter
EventsOfLine(kind, line) ==
  IF line.type \in {"blank", "malformed", "null"} THEN <<>>
  ELSE CASE kind = "generic" -> parseNormalizedEngineEvent(line)
         [] kind = "claude" ->
              IF parseNormalizedEngineEvent(line) # <<>> THEN parseNormalizedEngineEvent(line)
              ELSE translateClaudeLineToEvents(line)
         [] kind = "opencode" -> mapOpenCodeEvent(line)

\* the Claude parser reads parsed.session_id of what JSON.parse returned: a
\* line holding null makes push (or finish) throw a TypeError
LineThrows(kind, line) == kind = "claude" /\ line.type = "null"

\* emit / pushEvent: the first run_finished sets runFinishedEmitted, later ones
\* are dropped
RECURSIVE EmitAll(_, _)
EmitAll(st, evs) ==
  IF evs = <<>> THEN st
  ELSE LET ev == Head(evs)
       IN  IF ev.type = "run_finished" /\ st.runFinishedEmitted
             THEN EmitAll(st, Tail(evs))
             ELSE EmitAll([st EXCEPT !.events = Append(@, ev),
                                     !.runFinishedEmitted = @ \/ ev.type = "run_finished"],
                          Tail(evs))

\* a consumeLines that gives up at the first line JSON.parse rejects
RECURSIVE StopAtMalformed(_, _, _)
StopAtMalformed(kind, st, lines) ==
  IF lines = <<>> THEN st
  ELSE LET line == Head(lines)
       IN  IF line.type = "blank" THEN StopAtMalformed(kind, st, Tail(lines))
           ELSE IF line.type = "malformed" THEN [st EXCEPT !.malformedCount = @ + 1]
           ELSE StopAtMalformed(kind, EmitAll(st, EventsOfLine(kind, line)), Tail(lines))

\* consumeLines / processLine / parseLines over the lines of one call;
\* st = [runFinishedEmitted, malformedCount, events, threw]
RECURSIVE ConsumeLines(_, _, _)
ConsumeLines(kind, st, lines) ==
  IF lines = <<>> THEN st
  ELSE LET line == Head(lines)
       IN  IF line.type = "blank" THEN ConsumeLines(kind, st, Tail(lines))
           ELSE IF line.type = "malformed"
             THEN ConsumeLines(kind, [st EXCEPT !.malformedCount = @ + 1], Tail(lines))
           ELSE IF LineThrows(kind, line) THEN [st EXCEPT !.threw = TRUE]
           ELSE ConsumeLines(kind, EmitAll(st, EventsOfLine(kind, line)), Tail(lines))

\* history: the status of the first run_finished among the lines
RECURSIVE FirstFinished(_, _)
FirstFinished(kind, lines) ==
  IF lines = <<>> THEN <<>>
  ELSE LET fin == SelectSeq(EventsOfLine(kind, Head(lines)), LAMBDA ev : ev.type = "run_finished")
       IN  IF fin # <<>> THEN <<fin[1].status>> ELSE FirstFinished(kind, Tail(lines))

NewParser(kind) ==
  [kind |-> kind, pending |-> <<>>, runFinishedEmitted |-> FALSE, malformedCount |-> 0,
   finished |-> <<>>, inputFinished |-> <<>>, finishStatus |-> <<>>,
   pushes |-> 0, finishes |-> 0, finishesReturned |-> 0, threw |-> FALSE]

InitParser ==
  /\ now = 0
  /\ runs = <<>>
  /\ jobs = <<>>
  /\ runEvents = <<>>
  /\ leaseHist = <<>>
  /\ tasks = <<>>
  /\ activeSessions = {}
  /\ creates = <<>>
  /\ workers = <<>>
  /\ cancels = <<>>
  /\ reconciler = <<>>
  /\ inbox = {}
  /\ updates = <<>>
  /\ supervisor = <<>>
  /\ activeJobs = {}
  /\ execs = <<>>
  /\ inboxCalls = <<>>
  /\ NoHandler
  /\ runner = <<>>
  /\ NoMore
  /\ parser \in {NewParser(k) : k \in ParserKinds}

\* the closure state one call starts from
CallState == [runFinishedEmitted |-> parser.runFinishedEmitted,
              malformedCount |-> parser.malformedCount, events |-> <<>>, threw |-> FALSE]

\* the statuses of the run_finished events a call returned (none if it threw)
Returned(st) ==
  IF st.threw THEN <<>>
  ELSE LET fin == SelectSeq(st.events, LAMBDA ev : ev.type = "run_finished")
       IN  [i \in DOMAIN fin |-> fin[i].status]

\* the run_finished of the input counts until the first finish call
NoteInput(lines) ==
  IF parser.finishes = 0 /\ parser.inputFinished = <<>>
    THEN FirstFinished(parser.kind, lines)
    ELSE parser.inputFinished

\* parser.push(chunk): lineDecoder.push, then the lines are consumed
ParserPush(chunk) ==
  /\ parser.pushes < MaxPushes
  /\ LET st == ConsumeLines(parser.kind, CallState, chunk.lines)
     IN  parser' = [parser EXCEPT !.pending = chunk.tail,
                                  !.runFinishedEmitted = st.runFinishedEmitted,
                                  !.malformedCount = st.malformedCount,
                                  !.finished = @ \o Returned(st),
                                  !.inputFinished = NoteInput(chunk.lines),
                                  !.pushes = @ + 1,
                                  !.threw = @ \/ st.threw]
  /\ UNCHANGED <<now, storeVars, tasks, orchVars, botVars, inboxCalls, handlerVars, runner, moreVars>>

\* parser.finish(status): lineDecoder.flush, the rest is consumed, run_finished
\* with the given status is added unless one was emitted
ParserFinish(status) ==
  /\ parser.finishes < MaxFinishes
  /\ LET st == ConsumeLines(parser.kind, CallState, parser.pending)
         end == IF st.threw \/ st.runFinishedEmitted THEN st
                ELSE [st EXCEPT !.runFinishedEmitted = TRUE,
                                !.events = Append(@, Event("run_finished", status))]
     IN  parser' = [parser EXCEPT !.pending = <<>>,
                                  !.runFinishedEmitted = end.runFinishedEmitted,
                                  !.malformedCount = end.malformedCount,
                                  !.finished = @ \o Returned(end),
                                  !.inputFinished = NoteInput(parser.pending),
                                  !.finishStatus = IF @ = <<>> THEN <<status>> ELSE @,
                                  !.finishes = @ + 1,
                                  !.finishesReturned = IF end.threw THEN @ ELSE @ + 1,
                                  !.threw = @ \/ end.threw]
  /\ UNCHANGED <<now, storeVars, tasks, orchVars, botVars, inboxCalls, handlerVars, runner, moreVars>>

NextParser ==
  \/ \E chunk \in Chunks : ParserPush(chunk)
  \/ \E status \in EngineRunStatus : ParserFinish(status)

SpecParser == InitParser /\ [][NextParser]_vars

\* C17: for each parser, once a finish call has returned the events returned so
\* far by its push and finish calls hold exactly one run_finished: the first
\* one of the input if the input has one, else one with the status given to
\* finish; before that at most one; calls after finish add none.
C17_OneRunFinished ==
  /\ Len(parser.finished) <= 1
  /\ parser.finishesReturned > 0 =>
       parser.finished = IF parser.inputFinished # <<>> THEN parser.inputFinished
                         ELSE parser.finishStatus

\* ---------------------------------------------------------------------------
\* ProcessRunner: one child process per session, cancel with escalation.
\*
\* runner.active is activeBySession (its keys), runner.procs the children
\* spawned so far, in spawn order.  A child is "running" until Node has seen
\* it exit (exitCode or signalCode set), "exited" until its 'close' listener
\* has run, "closed" afterwards.  The 'error' listener is not an action: a
\* child that cannot be spawned has no pid, and start has thrown by then.
\* ---------------------------------------------------------------------------

MaxProcs == 2
MaxCancels == 2

RunnerSessions == {"claude:1", "claude:2"}
ProcIds == 1..MaxProcs
ExitCodes == {0, 1}

NewRunner == [active |-> {}, procs |-> <<>>, lastStart |-> <<>>]

InitRunner ==
  /\ now = 0
  /\ runs = <<>> /\ jobs = <<>> /\ runEvents = <<>> /\ leaseHist = <<>>
  /\ tasks = <<>>
  /\ activeSessions = {} /\ creates = <<>> /\ workers = <<>> /\ cancels = <<>>
  /\ reconciler = <<>>
  /\ inbox = {} /\ updates = <<>> /\ supervisor = <<>> /\ activeJobs = {} /\ execs = <<>>
  /\ inboxCalls = <<>>
  /\ NoHandler
  /\ parser = <<>>
  /\ runner = NewRunner
  /\ NoMore

RunnerUnchanged ==
  UNCHANGED <<now, storeVars, tasks, orchVars, botVars, inboxCalls, handlerVars, parser, moreVars>>

\* A child that has not closed yet.
Unclosed(r, sessionId) ==
  {i \in DOMAIN r.procs : r.procs[i].sessionId = sessionId /\ r.procs[i].state # "closed"}

NewChild(sessionId, stubborn) ==
  [sessionId |-> sessionId, stubborn |-> stubborn, state |-> "running",
   exitCode |-> <<>>, signalCode |-> <<>>, killed |-> FALSE,
   cancelRequested |-> FALSE, timer |-> "none",
   lifecycle |-> <<"starting", "running">>, signals |-> <<>>,
   cancelCalls |-> 0, timersArmed |-> 0, liveAtCancel |-> <<>>,
   exitedInGrace |-> FALSE, result |-> <<>>]

SlotNeverTaken(r, sessionId) == FALSE

\* existing !== undefined
SlotTaken(r, sessionId) == sessionId \in r.active

\* start(options): spawned says whether spawn gave the child a pid; stubborn
\* is the program started, one that ignores SIGINT and never ends by itself
\* or one that may end at any time and dies of SIGINT.
RunnerStart(sessionId, spawned, stubborn) ==
  /\ runner # <<>>
  /\ LET Call(outcome) == <<[sessionId |-> sessionId, outcome |-> outcome,
                             unclosedBefore |-> Unclosed(runner, sessionId) # {}]>>
     IN  IF SlotTaken(runner, sessionId)
         THEN runner' = [runner EXCEPT !.lastStart = Call("SingleFlightSessionError")]
         ELSE IF ~spawned
         THEN runner' = [runner EXCEPT !.lastStart = Call("Error")]
         ELSE /\ Len(runner.procs) < MaxProcs
              /\ runner' = [runner EXCEPT
                   !.procs = Append(@, NewChild(sessionId, stubborn)),
                   !.active = @ \cup {sessionId},
                   !.lastStart = Call("started")]
  /\ RunnerUnchanged

\* child.kill(signal): the signal reaches a child that has not exited and
\* child.killed becomes true; a child that has exited has no handle left and
\* kill does nothing.
kill(p, signal) ==
  IF p.state = "running"
  THEN [p EXCEPT !.signals = Append(@, signal), !.killed = TRUE]
  ELSE p

NeverCancelled(p) == FALSE

\* cancelRequested || child.killed
AlreadyCancelled(p) == p.cancelRequested \/ p.killed

\* handle.cancel()
cancel(p) ==
  LET called == [p EXCEPT !.cancelCalls = @ + 1,
                          !.liveAtCancel = IF @ = <<>> THEN <<p.state = "running">> ELSE @]
  IN  IF AlreadyCancelled(p) THEN called
      ELSE [kill([called EXCEPT !.cancelRequested = TRUE,
                                !.lifecycle = Append(@, "cancelling")], "SIGINT")
              EXCEPT !.timer = "armed", !.timersArmed = @ + 1]

HandleCancel(i) ==
  /\ runner # <<>>
  /\ i \in DOMAIN runner.procs
  /\ runner.procs[i].cancelCalls < MaxCancels
  /\ runner' = [runner EXCEPT !.procs[i] = cancel(@)]
  /\ RunnerUnchanged

\* cancelAll(): cancel on every handle in activeBySession.
CancelAll ==
  /\ runner # <<>>
  /\ runner.active # {}
  /\ \A i \in DOMAIN runner.procs :
       runner.procs[i].sessionId \in runner.active /\ runner.procs[i].state # "closed"
         => runner.procs[i].cancelCalls < MaxCancels
  /\ runner' = [runner EXCEPT !.procs =
       [i \in DOMAIN @ |->
          IF @[i].sessionId \in runner.active /\ @[i].state # "closed"
          THEN cancel(@[i]) ELSE @[i]]]
  /\ RunnerUnchanged

AlwaysStillRunning(p) == TRUE

\* child.exitCode === null && child.signalCode === null
StillRunning(p) == p.exitCode = <<>> /\ p.signalCode = <<>>

\* The escalation timer's callback, cancelGraceMs after cancel armed it.
EscalationTimer(i) ==
  /\ runner # <<>>
  /\ i \in DOMAIN runner.procs
  /\ runner.procs[i].timer = "armed"
  /\ LET p == [runner.procs[i] EXCEPT !.timer = "fired"]
     IN  runner' = [runner EXCEPT !.procs[i] =
           IF StillRunning(p)
           THEN kill([p EXCEPT !.lifecycle = Append(@, "killing")], "SIGKILL")
           ELSE p]
  /\ RunnerUnchanged

\* The child ends by itself with an exit code; one that was sent SIGKILL does
\* not run any further.
ProcessExit(i, code) ==
  /\ runner # <<>>
  /\ i \in DOMAIN runner.procs
  /\ runner.procs[i].state = "running"
  /\ ~runner.procs[i].stubborn
  /\ \A k \in DOMAIN runner.procs[i].signals : runner.procs[i].signals[k] # "SIGKILL"
  /\ runner' = [runner EXCEPT !.procs[i] =
       [@ EXCEPT !.state = "exited", !.exitCode = <<code>>,
                 !.exitedInGrace = (runner.procs[i].timer = "armed")]]
  /\ RunnerUnchanged

\* The child dies of a signal it was sent: SIGKILL always, SIGINT unless the
\* program ignores it.
ProcessSignalled(i) ==
  /\ runner # <<>>
  /\ i \in DOMAIN runner.procs
  /\ runner.procs[i].state = "running"
  /\ LET p == runner.procs[i]
         sigs == {p.signals[k] : k \in DOMAIN p.signals}
     IN  /\ "SIGKILL" \in sigs \/ ("SIGINT" \in sigs /\ ~p.stubborn)
         /\ runner' = [runner EXCEPT !.procs[i] =
              [@ EXCEPT !.state = "exited",
                        !.signalCode = <<IF "SIGKILL" \in sigs THEN "SIGKILL" ELSE "SIGINT">>,
                        !.exitedInGrace = (runner.procs[i].timer = "armed")]]
  /\ RunnerUnchanged

\* clearEscalation()
clearEscalation(p) == IF p.timer = "armed" THEN [p EXCEPT !.timer = "cleared"] ELSE p

\* child.once('close', (exitCode, signal) => ...)
ChildClose(i) ==
  /\ runner # <<>>
  /\ i \in DOMAIN runner.procs
  /\ runner.procs[i].state = "exited"
  /\ LET p == clearEscalation(runner.procs[i])
         status == IF p.cancelRequested THEN "cancelled"
                   ELSE IF p.exitCode = <<0>> THEN "completed" ELSE "failed"
     IN  runner' = [runner EXCEPT
           !.active = @ \ {p.sessionId},
           !.procs[i] = [p EXCEPT !.state = "closed",
                                  !.lifecycle = Append(@, "exited"),
                                  !.result = <<[sessionId |-> p.sessionId, status |-> status,
                                                exitCode |-> p.exitCode, signal |-> p.signalCode,
                                                cancelled |-> p.cancelRequested]>>]]
  /\ RunnerUnchanged

NextRunner ==
  \/ \E sessionId \in RunnerSessions, spawned \in BOOLEAN, stubborn \in BOOLEAN :
       RunnerStart(sessionId, spawned, stubborn)
  \/ \E i \in ProcIds : HandleCancel(i)
  \/ CancelAll
  \/ \E i \in ProcIds : EscalationTimer(i)
  \/ \E i \in ProcIds, code \in ExitCodes : ProcessExit(i, code)
  \/ \E i \in ProcIds : ProcessSignalled(i)
  \/ \E i \in ProcIds : ChildClose(i)

SpecRunner == InitRunner /\ [][NextRunner]_vars

\* The same runner with the event loop and the operating system doing their
\* part: an armed timer's callback runs, a child that was sent a signal it
\* does not ignore dies, and 'close' follows the exit.
SpecRunnerLive ==
  /\ InitRunner /\ [][NextRunner]_vars
  /\ \A i \in ProcIds :
       /\ WF_vars(EscalationTimer(i))
       /\ WF_vars(ProcessSignalled(i))
       /\ WF_vars(ChildClose(i))

Children == IF runner = <<>> THEN {} ELSE DOMAIN runner.procs

Count(seq, x) == Cardinality({k \in DOMAIN seq : seq[k] = x})

\* C18: a session never has two children that have not closed; a start call
\* throws SingleFlightSessionError exactly when the session has a child that
\* has not closed yet, and spawns nothing then.
C18_SingleFlight ==
  runner # <<>> =>
    /\ \A sessionId \in RunnerSessions : Cardinality(Unclosed(runner, sessionId)) <= 1
    /\ runner.lastStart # <<>> =>
         (runner.lastStart[1].unclosedBefore
            <=> runner.lastStart[1].outcome = "SingleFlightSessionError")

\* A session was started again after its first child closed, and a further
\* start was refused while the second child lives.
C18_Witness ==
  /\ runner # <<>>
  /\ runner.lastStart # <<>>
  /\ runner.lastStart[1].outcome = "SingleFlightSessionError"
  /\ \E i, j \in Children :
       /\ i < j
       /\ runner.procs[i].sessionId = runner.lastStart[1].sessionId
       /\ runner.procs[j].sessionId = runner.lastStart[1].sessionId
       /\ runner.procs[i].state = "closed"
       /\ runner.procs[j].state # "closed"

\* C19: when cancel was first called while the child was running, however many
\* calls follow, one SIGINT has been sent, one 'cancelling' event emitted and
\* one escalation timer armed, and the result, once there, is cancelled.
C19_CancelIdempotent ==
  \A i \in Children :
    LET p == runner.procs[i]
    IN  p.liveAtCancel = <<TRUE>> =>
          /\ Count(p.signals, "SIGINT") = 1
          /\ Count(p.lifecycle, "cancelling") = 1
          /\ p.timersArmed = 1
          /\ p.result # <<>> =>
               p.result[1].status = "cancelled" /\ p.result[1].cancelled

\* cancel was called more than once on a running child, whose result is there.
C19_Witness ==
  \E i \in Children :
    /\ runner.procs[i].liveAtCancel = <<TRUE>>
    /\ runner.procs[i].cancelCalls >= 2
    /\ runner.procs[i].result # <<>>

CancelledWhileRunning(i) ==
  /\ i \in Children
  /\ runner.procs[i].liveAtCancel = <<TRUE>>

Escalated(i) ==
  /\ i \in Children
  /\ Count(runner.procs[i].lifecycle, "killing") = 1
  /\ Count(runner.procs[i].signals, "SIGKILL") = 1

\* C20: a child that ignores SIGINT and was running when cancel was called
\* gets 'killing' and SIGKILL when the timer's callback runs, and its result
\* eventually resolves as cancelled with signal SIGKILL; a child that exits
\* while the timer is armed gets neither 'killing' nor SIGKILL.
C20_Escalation ==
  /\ [](\A i \in Children :
          /\ (runner.procs[i].stubborn /\ CancelledWhileRunning(i)
                /\ runner.procs[i].timer = "fired") => Escalated(i)
          /\ runner.procs[i].exitedInGrace =>
               /\ Count(runner.procs[i].lifecycle, "killing") = 0
               /\ Count(runner.procs[i].signals, "SIGKILL") = 0)
  /\ \A i \in ProcIds :
       (CancelledWhileRunning(i) /\ runner.procs[i].stubborn)
         ~> (/\ Escalated(i)
             /\ runner.procs[i].result # <<>>
             /\ runner.procs[i].result[1].status = "cancelled"
             /\ runner.procs[i].result[1].signal = <<"SIGKILL">>)

\* A child that ignored SIGINT was killed and its result is there, and another
\* child exited while its timer was armed.
C20_Witness ==
  \E i, j \in Children :
    /\ runner.procs[i].stubborn /\ runner.procs[i].liveAtCancel = <<TRUE>>
    /\ runner.procs[i].result # <<>>
    /\ runner.procs[i].result[1].signal = <<"SIGKILL">>
    /\ runner.procs[j].exitedInGrace

IsPrefix(s, t) == Len(s) <= Len(t) /\ \A k \in DOMAIN s : s[k] = t[k]

LifecycleOrders ==
  {<<"starting", "running", "exited">>,
   <<"starting", "running", "cancelling", "exited">>,
   <<"starting", "running", "cancelling", "killing", "exited">>}

\* C21: the lifecycle events of every child are, in order, starting, running,
\* then possibly cancelling, then possibly killing, then exited: what has been
\* emitted so far is always the beginning of such a sequence, so no status
\* comes twice and none after exited.
C21_LifecycleOrder ==
  \A i \in Children :
    \E order \in LifecycleOrders : IsPrefix(runner.procs[i].lifecycle, order)

\* ---------------------------------------------------------------------------
\* runClaude: one engine process under the runner, the poll timer with the
\* idle watchdog and the cancel check, and the statuses that come out of it.
\* ---------------------------------------------------------------------------

NewEngineRun ==
  [pc |-> "idle", proc |-> 0, idleTripped |-> FALSE, idleStopped |-> FALSE,
   cancelRecorded |-> FALSE, exitStatus |-> <<>>, runStatus |-> <<>>]

InitEngineRun ==
  /\ now = 0
  /\ runs = <<>> /\ jobs = <<>> /\ runEvents = <<>> /\ leaseHist = <<>>
  /\ tasks = <<>>
  /\ activeSessions = {} /\ creates = <<>> /\ workers = <<>> /\ cancels = <<>>
  /\ reconciler = <<>>
  /\ inbox = {} /\ updates = <<>> /\ supervisor = <<>> /\ activeJobs = {} /\ execs = <<>>
  /\ inboxCalls = <<>>
  /\ NoHandler
  /\ parser = <<>>
  /\ runner = NewRunner
  /\ engineRun = NewEngineRun
  /\ stream = <<>> /\ streamer = <<>> /\ decoder = <<>> /\ shutdown = <<>>

EngineUnchanged ==
  UNCHANGED <<now, storeVars, tasks, orchVars, botVars, inboxCalls, handlerVars, parser,
              stream, streamer, decoder, shutdown>>

\* runClaude up to runner.start: the process is started under a fresh session id.
RunClaudeStart(sessionId, stubborn) ==
  /\ engineRun # <<>>
  /\ engineRun.pc = "idle"
  /\ ~SlotTaken(runner, sessionId)
  /\ runner' = [runner EXCEPT !.procs = Append(@, NewChild(sessionId, stubborn)),
                              !.active = @ \cup {sessionId}]
  /\ engineRun' = [engineRun EXCEPT !.pc = "polling", !.proc = Len(runner.procs) + 1]
  /\ EngineUnchanged

\* cancelRun records the cancellation: the run's status becomes cancelled.
CancelRunRecorded ==
  /\ engineRun # <<>>
  /\ engineRun.pc = "polling"
  /\ ~engineRun.cancelRecorded
  /\ engineRun' = [engineRun EXCEPT !.cancelRecorded = TRUE]
  /\ UNCHANGED runner
  /\ EngineUnchanged

\* The poll timer with Date.now() - lastActivityAt > IDLE_TIMEOUT_MS: the
\* watchdog calls handle.cancel().  The timer is cleared when the result settles.
PollIdle ==
  /\ engineRun # <<>>
  /\ engineRun.pc = "polling"
  /\ LET p == runner.procs[engineRun.proc]
     IN  /\ p.state # "closed"
         /\ p.cancelCalls < MaxCancels
         /\ runner' = [runner EXCEPT !.procs[engineRun.proc] = cancel(p)]
         /\ engineRun' = [engineRun EXCEPT
              !.idleTripped = TRUE,
              !.idleStopped = @ \/ (p.state = "running" /\ ~AlreadyCancelled(p))]
  /\ EngineUnchanged

\* The poll timer's cancel check: isCancelled() resolved true, handle.cancel().
PollCancelled ==
  /\ engineRun # <<>>
  /\ engineRun.pc = "polling"
  /\ engineRun.cancelRecorded
  /\ runner.procs[engineRun.proc].cancelCalls < MaxCancels
  /\ runner' = [runner EXCEPT !.procs[engineRun.proc] = cancel(@)]
  /\ UNCHANGED engineRun
  /\ EngineUnchanged

\* result.status === "completed" ? "success" : result.status === "cancelled" ? ...
ExitStatusOfResult(status) ==
  IF status = "completed" THEN "success"
  ELSE IF status = "cancelled" THEN "cancelled" ELSE "error"

\* runClaude returns after handle.result, and executeJobInner finalizes the
\* run with the status of the exit.
RunClaudeReturn ==
  /\ engineRun # <<>>
  /\ engineRun.pc = "polling"
  /\ runner.procs[engineRun.proc].result # <<>>
  /\ LET exitStatus == ExitStatusOfResult(runner.procs[engineRun.proc].result[1].status)
     IN  engineRun' = [engineRun EXCEPT !.pc = "returned",
                                        !.exitStatus = <<exitStatus>>,
                                        !.runStatus = <<RunStatusOfExit(exitStatus)>>]
  /\ UNCHANGED runner
  /\ EngineUnchanged

NextEngineRun ==
  \/ \E sessionId \in RunnerSessions, stubborn \in BOOLEAN : RunClaudeStart(sessionId, stubborn)
  \/ CancelRunRecorded
  \/ PollIdle
  \/ PollCancelled
  \/ RunClaudeReturn
  \/ \E i \in ProcIds : EscalationTimer(i)
  \/ \E i \in ProcIds, code \in ExitCodes : ProcessExit(i, code)
  \/ \E i \in ProcIds : ProcessSignalled(i)
  \/ \E i \in ProcIds : ChildClose(i)

SpecEngineRun == InitEngineRun /\ [][NextEngineRun]_vars

\* C24: when the idle watchdog stopped the engine process and no cancelRun was
\* recorded for the run, the execution yields exit status error and the run is
\* finalized as failed.
C24_IdleTimeoutFails ==
  (/\ engineRun # <<>>
   /\ engineRun.pc = "returned"
   /\ engineRun.idleStopped
   /\ ~engineRun.cancelRecorded)
    => engineRun.exitStatus = <<"error">> /\ engineRun.runStatus = <<"failed">>

\* ---------------------------------------------------------------------------
\* attachBackpressureStream: the 'data' listener of a child's stdout and
\* stderr.  A stream in flowing mode hands its buffered chunks to the listener
\* one by one; pause() stops that, resume() starts it again.
\* ---------------------------------------------------------------------------

MaxChunks == 2

Sources == {"stdout", "stderr"}

NewStream ==
  [flowing |-> TRUE, destroyed |-> FALSE, produced |-> 0, buffer |-> <<>>,
   delivered |-> <<>>, outstanding |-> {}, overlapped |-> FALSE]

InitStream ==
  /\ now = 0
  /\ runs = <<>> /\ jobs = <<>> /\ runEvents = <<>> /\ leaseHist = <<>>
  /\ tasks = <<>>
  /\ activeSessions = {} /\ creates = <<>> /\ workers = <<>> /\ cancels = <<>>
  /\ reconciler = <<>>
  /\ inbox = {} /\ updates = <<>> /\ supervisor = <<>> /\ activeJobs = {} /\ execs = <<>>
  /\ inboxCalls = <<>>
  /\ NoHandler
  /\ parser = <<>>
  /\ runner = <<>>
  /\ engineRun = <<>>
  /\ stream = [source \in Sources |-> NewStream]
  /\ streamer = <<>>
  /\ decoder = <<>>
  /\ shutdown = <<>>

StreamUnchanged ==
  UNCHANGED <<now, storeVars, tasks, orchVars, botVars, inboxCalls, handlerVars, parser,
              runner, engineRun, streamer, decoder, shutdown>>

\* The child writes a chunk; the stream buffers it until the listener gets it.
ChildWrite(source) ==
  /\ stream # <<>>
  /\ ~stream[source].destroyed
  /\ stream[source].produced < MaxChunks
  /\ stream' = [stream EXCEPT ![source].produced = @ + 1,
                              ![source].buffer = Append(@, stream[source].produced + 1)]
  /\ StreamUnchanged

NeverPause(maybePromise) == FALSE

\* maybePromise === undefined returns; otherwise stream.pause()
Pauses(maybePromise) == maybePromise # "undefined"

\* stream.on('data', chunk => ...): the callback returns a promise or undefined.
StreamData(source, maybePromise) ==
  /\ stream # <<>>
  /\ stream[source].flowing
  /\ ~stream[source].destroyed
  /\ stream[source].buffer # <<>>
  /\ LET st == stream[source]
         chunk == Head(st.buffer)
     IN  stream' = [stream EXCEPT ![source] =
           [st EXCEPT !.buffer = Tail(@),
                      !.delivered = Append(@, chunk),
                      !.overlapped = @ \/ st.outstanding # {},
                      !.outstanding = IF maybePromise = "undefined" THEN @ ELSE @ \cup {chunk},
                      !.flowing = ~Pauses(maybePromise)]]
  /\ StreamUnchanged

\* maybePromise.finally(() => { if (!stream.destroyed) stream.resume() }), for
\* a promise that fulfils or rejects.
InvocationSettles(source, chunk) ==
  /\ stream # <<>>
  /\ chunk \in stream[source].outstanding
  /\ stream' = [stream EXCEPT ![source].outstanding = @ \ {chunk},
                              ![source].flowing = IF stream[source].destroyed THEN @ ELSE TRUE]
  /\ StreamUnchanged

\* The stream is destroyed (the child's pipe closed); nothing flows any more.
StreamDestroyed(source) ==
  /\ stream # <<>>
  /\ ~stream[source].destroyed
  /\ stream' = [stream EXCEPT ![source].destroyed = TRUE, ![source].flowing = FALSE]
  /\ StreamUnchanged

NextStream ==
  \/ \E source \in Sources : ChildWrite(source)
  \/ \E source \in Sources, maybePromise \in {"undefined", "promise"} :
       StreamData(source, maybePromise)
  \/ \E source \in Sources, chunk \in 1..MaxChunks : InvocationSettles(source, chunk)
  \/ \E source \in Sources : StreamDestroyed(source)

SpecStream == InitStream /\ [][NextStream]_vars

\* C22: on each of stdout and stderr at most one asynchronous invocation is
\* outstanding; while one is, the stream is paused and no chunk is delivered;
\* once none is, the stream flows again unless it was destroyed.
C22_BackPressure ==
  stream # <<>> =>
    \A source \in Sources :
      /\ Cardinality(stream[source].outstanding) <= 1
      /\ stream[source].outstanding # {} => ~stream[source].flowing
      /\ ~stream[source].overlapped
      /\ (stream[source].outstanding = {} /\ ~stream[source].destroyed)
           => stream[source].flowing

\* Both chunks of stdout went through asynchronous invocations, the second one
\* after the first settled and the stream resumed, while stderr is paused.
C22_Witness ==
  /\ stream # <<>>
  /\ Len(stream["stdout"].delivered) = 2
  /\ stream["stdout"].outstanding = {2}
  /\ stream["stderr"].outstanding # {}
  /\ stream["stderr"].buffer # <<>>

\* ---------------------------------------------------------------------------
\* Claims about single orchestrator and repository calls
\* ---------------------------------------------------------------------------

SetOf(seq) == {seq[k] : k \in DOMAIN seq}

\* The in_flight runs that are at least staleBeforeMs old at time t.
StaleInFlight(rs, t, staleBeforeMs) ==
  {r \in DOMAIN rs : /\ rs[r].status = "in_flight"
                     /\ rs[r].startedAt # <<>>
                     /\ t - rs[r].startedAt[1] >= staleBeforeMs}

\* C23: a reconcileInFlightRuns call with staleBeforeMs > 0 takes up exactly
\* the in_flight runs that are staleBeforeMs old; for each it sets status
\* abandoned and finishedAt = now and leaves every other run alone, requeues
\* the run's leased job (lease cleared, availableAt = now) and leaves every
\* other job alone; it returns those run ids and the number of them whose job
\* is queued.
C23_ReconcileAbandonsStale ==
  [][reconciler'.staleBeforeMs > 0 =>
       LET run == Head(reconciler.todo)
       IN
       /\ reconciler'.calls # reconciler.calls =>
            /\ SetOf(reconciler'.todo) = StaleInFlight(runs, now, reconciler'.staleBeforeMs)
            /\ Len(reconciler'.todo) = Cardinality(SetOf(reconciler'.todo))
            /\ reconciler'.t = now
            /\ UNCHANGED <<runs, jobs>>
       /\ (reconciler.pc = "abandon" /\ reconciler'.pc = "requeue") =>
            /\ runs' = [runs EXCEPT ![run].status = "abandoned",
                                    ![run].finishedAt = <<reconciler.t>>]
            /\ UNCHANGED jobs
       /\ (reconciler.pc = "requeue" /\ reconciler'.pc = "get_job") =>
            /\ DOMAIN jobs' = DOMAIN jobs
            /\ \A j \in DOMAIN jobs :
                 jobs'[j] = IF jobs[j].runId = run /\ jobs[j].status = "leased"
                            THEN [jobs[j] EXCEPT !.status = "queued", !.leaseOwner = <<>>,
                                                 !.leaseExpiresAt = <<>>,
                                                 !.availableAt = reconciler.t]
                            ELSE jobs[j]
            /\ UNCHANGED runs
       /\ (reconciler.pc = "get_job" /\ reconciler'.pc = "idle") =>
            /\ SetOf(reconciler'.abandonedRunIds)
                 = {r \in DOMAIN runs : /\ runs[r].status = "abandoned"
                                        /\ runs[r].finishedAt = <<reconciler.t>>
                                        /\ runs[r].startedAt # <<>>
                                        /\ reconciler.t - runs[r].startedAt[1]
                                             >= reconciler.staleBeforeMs}
            /\ reconciler'.requeuedJobCount
                 = Cardinality({r \in SetOf(reconciler'.abandonedRunIds) :
                                  \E j \in DOMAIN jobs : jobs[j].runId = r
                                                         /\ jobs[j].status = "queued"})
            /\ UNCHANGED <<runs, jobs>>
  ]_vars

\* A call with staleBeforeMs > 0 is about to return: it abandoned the one
\* stale run and requeued its job, and left alone an in_flight run that was
\* too young when the call listed the runs.
C23_Witness ==
  /\ reconciler.pc = "get_job"
  /\ reconciler.staleBeforeMs > 0
  /\ Len(reconciler.todo) = 1
  /\ reconciler.abandonedRunIds = reconciler.todo
  /\ runs[Head(reconciler.todo)].status = "abandoned"
  /\ \E j \in DOMAIN jobs : jobs[j].runId = Head(reconciler.todo) /\ jobs[j].status = "queued"
  /\ \E r \in DOMAIN runs : runs[r].status = "in_flight"

\* C25: when executor.execute threw, processNextLeasedJob ends with an error
\* event carrying the message appended to the run, the run failed, the job
\* failed with lastError = message, the exception raised to the caller, the
\* session out of the active set and no active run left for it, so that a
\* createRun for the session passes the single-flight check.
C25_ExecutorThrowHandled ==
  [][\A w \in WorkerIds :
       (workers[w].pc = "complete_job" /\ workers[w].threw /\ workers'[w].pc = "idle") =>
         LET run == workers[w].run
             message == workers[w].error
             sessionId == runs[run].sessionId
         IN  /\ \E e \in DOMAIN runEvents' :
                  /\ runEvents'[e].runId = run
                  /\ runEvents'[e].eventType = "error"
                  /\ runEvents'[e].message = <<message>>
             /\ runs'[run].status = "failed"
             /\ jobs'[workers[w].job].status = "failed"
             /\ jobs'[workers[w].job].lastError = <<message>>
             /\ workers'[w].raised = <<message>>
             /\ sessionId \notin activeSessions'
             /\ ActiveRunsOfSession(runs', sessionId) = {}
  ]_vars

\* The executor threw for a session's first run, the call raised the error,
\* and a later createRun for the same session returned a second run.
C25_Witness ==
  \E w \in DOMAIN workers, c \in DOMAIN creates :
    /\ workers[w].pc = "idle"
    /\ workers[w].raised # <<>>
    /\ creates[c].res = "returned"
    /\ creates[c].runId = 2
    /\ runs[1].status = "failed"
    /\ runs[1].sessionId = runs[2].sessionId
    /\ \E j \in DOMAIN jobs : jobs[j].runId = 1 /\ jobs[j].lastError = workers[w].raised


\* ---------------------------------------------------------------------------
\* createRun against a session that is already active
\* ---------------------------------------------------------------------------

\* the session has a run in queued, in_flight or leased, or is in the in-memory set
SessionIsActive(rs, active, sessionId) ==
  \/ sessionId \in active
  \/ \E i \in DOMAIN rs : /\ rs[i].sessionId = sessionId
                          /\ rs[i].status \in {"queued", "in_flight", "leased"}

\* the createRun call c, made with a key no run carries for a session that is active
RejectedCall(c) ==
  /\ creates[c].pc \in {"new", "find_active"}
  /\ creates'[c] # creates[c]
  /\ getRunByIdempotencyKey(runs, creates'[c].key) = {}
  /\ SessionIsActive(runs, activeSessions, creates'[c].sessionId)

\* C26: createRun with a new idempotency key for a session that has a run in
\* queued, in_flight or leased, or that is in the in-memory active set, ends with
\* SessionAlreadyActiveError without reaching either INSERT, and the run and job
\* tables are left as they were.
C26_ActiveSessionRejected ==
  [][\A c \in CallIds :
       RejectedCall(c) =>
         /\ runs' = runs
         /\ jobs' = jobs
         /\ creates'[c].runId = 0
         /\ \/ creates'[c].pc = "done" /\ creates'[c].res = "SessionAlreadyActiveError"
            \/ /\ creates[c].pc = "new"
               /\ creates'[c].pc = "find_active"
               /\ creates'[c].sessionId \notin activeSessions]_vars

\* a call was rejected by the in-memory set and another by the active run in the
\* table, and the session's first run and its job are still there
C26_Witness ==
  /\ Len(runs) = 1 /\ Len(jobs) = 1
  /\ runs[1].status = "queued"
  /\ jobs[1].status = "queued"
  /\ \E c \in CallIds : /\ creates[c].pc = "done"
                        /\ creates[c].res = "SessionAlreadyActiveError"
                        /\ creates[c].sessionId = runs[1].sessionId
                        /\ creates[c].key # runs[1].idempotencyKey


(***************************************************************************)
(* SpecLeaseCall: leaseNextJob calls one after the other, each with its    *)
(* own input.now, on a job table that enqueues and requeues keep changing. *)
(***************************************************************************)

\* leaseNextJob({owner, now: at}): the SELECT of the candidate; without a
\* candidate the method is about to return undefined
LeaseCall(t, owner, at) ==
  /\ \A u \in TaskIds : tasks[u].pc = "idle"
  /\ jobs # <<>>
  /\ LET cand == LeaseCandidate(jobs, at)
         call == [tasks[t] EXCEPT !.owner = <<owner>>, !.t = at]
     IN  tasks' = [tasks EXCEPT ![t] =
           IF cand = {}
             THEN [call EXCEPT !.pc = "lease_none"]
             ELSE [call EXCEPT !.pc = "lease_update", !.job = CHOOSE j \in cand : TRUE]]
  /\ UNCHANGED <<unitVars, botVars, orchVars, now, storeVars>>

\* leaseNextJob: if (!candidate) return undefined
LeaseNone(t) ==
  /\ tasks[t].pc = "lease_none"
  /\ tasks' = [tasks EXCEPT ![t] = IdleTask]
  /\ UNCHANGED <<unitVars, botVars, orchVars, now, storeVars>>

LeaseIdle == \A u \in TaskIds : tasks[u].pc = "idle"

NextLeaseCall ==
  \/ LeaseIdle /\ Tick
  \/ \E s \in Sessions : LeaseIdle /\ StoreCreateRun(s)
  \/ \E r \in 1..MaxStoreRuns : LeaseIdle /\ StoreEnqueueJob(r)
  \/ \E r \in 1..MaxStoreRuns : LeaseIdle /\ StoreRequeue(r)
  \/ \E t \in TaskIds, o \in Owners, at \in 0..MaxTime : LeaseCall(t, o, at)
  \/ \E t \in TaskIds : LeaseNone(t)
  \/ \E t \in TaskIds : LeaseWrite(t)
  \/ \E t \in TaskIds : LeaseReturn(t)

SpecLeaseCall == InitStore /\ [][NextLeaseCall]_vars

\* the jobs that qualify at time at: queued, available, no lease still running
Qualifying(js, at) ==
  {j \in DOMAIN js : /\ js[j].status = "queued"
                     /\ js[j].availableAt <= at
                     /\ (js[j].leaseExpiresAt = <<>> \/ js[j].leaseExpiresAt[1] <= at)}

\* j has the smallest availableAt of the set, the earliest created of those
FirstOf(js, q, j) ==
  /\ j \in q
  /\ \A k \in q : js[j].availableAt <= js[k].availableAt
  /\ \A k \in q : js[k].availableAt = js[j].availableAt => j <= k

\* C27: leaseNextJob({owner, now, leaseDurationMs}) picks the qualifying job
\* (queued, availableAt <= now, leaseExpiresAt null or <= now) with the smallest
\* availableAt, the earliest created on a tie; the UPDATE makes that job leased
\* with leaseOwner = owner and leaseExpiresAt = now + leaseDurationMs and leaves
\* every other job as it was; the method returns that job; when no job
\* qualifies it returns nothing and changes nothing.
C27_LeaseNextJob ==
  [][\A t \in TaskIds :
       /\ (tasks[t].pc = "idle" /\ tasks'[t].pc # "idle") =>
            /\ jobs' = jobs
            /\ IF Qualifying(jobs, tasks'[t].t) = {}
                 THEN tasks'[t].pc = "lease_none"
                 ELSE /\ tasks'[t].pc = "lease_update"
                      /\ FirstOf(jobs, Qualifying(jobs, tasks'[t].t), tasks'[t].job)
       /\ (tasks[t].pc = "lease_none" /\ tasks'[t].pc = "idle") =>
            /\ jobs' = jobs
            /\ leaseHist' = leaseHist
       /\ (tasks[t].pc = "lease_update" /\ tasks'[t].pc # "lease_update") =>
            /\ DOMAIN jobs' = DOMAIN jobs
            /\ jobs'[tasks[t].job].status = "leased"
            /\ jobs'[tasks[t].job].leaseOwner = tasks[t].owner
            /\ jobs'[tasks[t].job].leaseExpiresAt = <<tasks[t].t + LEASE_DURATION>>
            /\ \A j \in DOMAIN jobs : j # tasks[t].job => jobs'[j] = jobs[j]
       /\ (tasks[t].pc = "lease_reselect" /\ tasks'[t].pc = "idle") =>
            /\ jobs' = jobs
            /\ \A j \in DOMAIN leaseHist :
                 leaseHist'[j].leasesReturned =
                   leaseHist[j].leasesReturned + (IF j = tasks[t].job THEN 1 ELSE 0)]_vars

\* a call is about to return the later-created of two jobs because the earlier
\* one was requeued to a later availableAt
C27_Witness ==
  /\ Len(jobs) = 2
  /\ \E t \in TaskIds : /\ tasks[t].pc = "lease_reselect"
                        /\ tasks[t].job = 2
                        /\ jobs[2].status = "leased"
                        /\ jobs[1].status = "queued"
                        /\ jobs[2].availableAt < jobs[1].availableAt
                        /\ jobs[1].availableAt <= tasks[t].t


(***************************************************************************)
(* SpecStreamer: TelegramRunStreamer for one run.  handleEvent and         *)
(* finishRun are called one after the other; every sendMessage and         *)
(* editMessage of the transport either succeeds or fails.                  *)
(***************************************************************************)
MaxStreamCalls == 3
MaxStreamClock == 2
MaxTextChunks == 2

\* options.editIntervalMs, in clock steps
editIntervalMs == 1

StreamEventTypes == {"text_delta", "error"}

\* no RunStreamState in the map, no call made yet
NewStreamer ==
  [clock |-> 0, present |-> FALSE, progressMessageId |-> <<>>, lastEditAt |-> 0,
   lastId |-> 0, pc |-> "idle", kind |-> "none", t |-> 0, chunksLeft |-> 0,
   editFailed |-> FALSE, fallbackSends |-> 0, fallbackSent |-> <<>>,
   escaped |-> FALSE, calls |-> 0, prevAttempt |-> <<>>, lastAttempt |-> <<>>]

InitStreamer ==
  /\ inboxCalls = <<>>
  /\ NoHandler
  /\ parser = <<>>
  /\ runner = <<>>
  /\ engineRun = <<>>
  /\ stream = <<>>
  /\ streamer = NewStreamer
  /\ decoder = <<>>
  /\ shutdown = <<>>
  /\ now = 0
  /\ runs = <<>>
  /\ jobs = <<>>
  /\ runEvents = <<>>
  /\ leaseHist = <<>>
  /\ tasks = <<>>
  /\ activeSessions = {}
  /\ creates = <<>>
  /\ workers = <<>>
  /\ cancels = <<>>
  /\ reconciler = <<>>
  /\ inbox = {}
  /\ updates = <<>>
  /\ supervisor = <<>>
  /\ activeJobs = {}
  /\ execs = <<>>

StreamerUnchanged ==
  UNCHANGED <<botVars, orchVars, storeVars, now, tasks, inboxCalls, handlerVars, parser,
              runner, engineRun, stream, decoder, shutdown>>

\* a safeSend that lets the failure of sendMessage through
rethrowingSend(ok) == IF ok THEN "resolved" ELSE "rejected"

\* safeSend: try { await transport.sendMessage } catch { console.warn }
safeSend(ok) == "resolved"

\* this.now() moves on
StreamerClock ==
  /\ streamer.clock < MaxStreamClock
  /\ streamer' = [streamer EXCEPT !.clock = @ + 1]
  /\ StreamerUnchanged

\* the fields of a call that has just been entered; getState creates the state
EnterCall(kind) ==
  [streamer EXCEPT !.present = TRUE, !.kind = kind, !.t = streamer.clock,
                   !.calls = @ + 1, !.chunksLeft = 0, !.editFailed = FALSE,
                   !.fallbackSends = 0, !.fallbackSent = <<>>]

\* updateProgress up to its first await: the first message of the progress view
\* is sent, a later one edits it; the times of this attempt and of the one
\* before it are kept
UpdateProgress(st) ==
  [st EXCEPT !.pc = IF st.progressMessageId = <<>> THEN "progress_send" ELSE "progress_edit",
             !.prevAttempt = st.lastAttempt,
             !.lastAttempt = <<st.t>>]

\* handleEvent up to its first await: an error event goes to safeSend, any other
\* event to updateProgress when the edit interval has passed
HandleEvent(eventType) ==
  /\ streamer.pc \in {"idle", "returned"}
  /\ streamer.calls < MaxStreamCalls
  /\ streamer' =
       IF eventType = "error" THEN [EnterCall("handleEvent") EXCEPT !.pc = "error_send"]
       ELSE IF streamer.clock - streamer.lastEditAt < editIntervalMs
         THEN [EnterCall("handleEvent") EXCEPT !.pc = "returned"]
       ELSE UpdateProgress(EnterCall("handleEvent"))
  /\ StreamerUnchanged

\* finishRun up to its first await; chunks = 0 is an empty final text
FinishRun(chunks) ==
  /\ streamer.pc \in {"idle", "returned"}
  /\ streamer.calls < MaxStreamCalls
  /\ streamer' =
       [EnterCall("finishRun") EXCEPT
          !.chunksLeft = IF chunks = 0 THEN 1 ELSE chunks,
          !.pc = IF streamer.progressMessageId = <<>> THEN "finish_send" ELSE "finish_edit"]
  /\ StreamerUnchanged

\* finishRun's finally: this.states.delete(runId)
DeleteState(st) ==
  [st EXCEPT !.present = FALSE, !.progressMessageId = <<>>, !.lastEditAt = 0,
             !.pc = "returned", !.chunksLeft = 0, !.prevAttempt = <<>>, !.lastAttempt = <<>>]

\* finishRun after the message for one chunk: the next chunk, or the finally
\* block; a rejection inside the try block goes to the catch and the finally
AfterChunk(st, outcome) ==
  IF outcome = "resolved" /\ st.chunksLeft > 1
    THEN [st EXCEPT !.chunksLeft = @ - 1, !.pc = "finish_send"]
    ELSE DeleteState(st)

\* transport.sendMessage settles, at whichever call site is waiting for it
SendMessage(ok) ==
  /\ streamer.pc \in {"error_send", "progress_send", "fallback_send",
                      "finish_send", "finish_fallback"}
  /\ LET id == streamer.lastId + 1
         st == [streamer EXCEPT !.lastId = IF ok THEN id ELSE @]
     IN  streamer' =
           CASE streamer.pc = "error_send" ->
                  [st EXCEPT !.pc = "returned",
                             !.escaped = @ \/ safeSend(ok) = "rejected"]
             [] streamer.pc = "progress_send" ->
                  IF ok THEN [st EXCEPT !.pc = "returned", !.progressMessageId = <<id>>,
                                        !.lastEditAt = streamer.t]
                        ELSE [st EXCEPT !.pc = "returned"]
             [] streamer.pc = "fallback_send" ->
                  [st EXCEPT !.pc = "returned",
                             !.fallbackSends = @ + 1,
                             !.fallbackSent = IF ok THEN <<id>> ELSE <<>>,
                             !.progressMessageId = IF ok THEN <<id>> ELSE @,
                             !.lastEditAt = streamer.t]
             [] streamer.pc = "finish_fallback" ->
                  AfterChunk([st EXCEPT !.fallbackSends = @ + 1,
                                        !.fallbackSent = IF ok THEN <<id>> ELSE <<>>],
                             safeSend(ok))
             [] streamer.pc = "finish_send" ->
                  AfterChunk(st, safeSend(ok))
  /\ StreamerUnchanged

\* transport.editMessage settles: updateProgress and finishRun fall back to a send
EditMessage(ok) ==
  /\ streamer.pc \in {"progress_edit", "finish_edit"}
  /\ streamer' =
       CASE streamer.pc = "progress_edit" ->
              IF ok THEN [streamer EXCEPT !.pc = "returned", !.lastEditAt = streamer.t]
                    ELSE [streamer EXCEPT !.pc = "fallback_send", !.editFailed = TRUE]
         [] streamer.pc = "finish_edit" ->
              IF ok THEN AfterChunk(streamer, "resolved")
                    ELSE [streamer EXCEPT !.pc = "finish_fallback", !.editFailed = TRUE]
  /\ StreamerUnchanged

NextStreamer ==
  \/ StreamerClock
  \/ \E e \in StreamEventTypes : HandleEvent(e)
  \/ \E n \in 0..MaxTextChunks : FinishRun(n)
  \/ \E ok \in BOOLEAN : SendMessage(ok)
  \/ \E ok \in BOOLEAN : EditMessage(ok)

SpecStreamer == InitStreamer /\ [][NextStreamer]_vars

\* C28: whatever sendMessage and editMessage do, no failure leaves handleEvent or
\* finishRun; a call in which the edit of the progress message failed has made
\* exactly one sendMessage in its place, and when that call was handleEvent,
\* lastEditAt is the call's time and progressMessageId is the id of the new
\* message if the send succeeded.
C28_FailuresContained ==
  /\ ~streamer.escaped
  /\ (streamer.pc = "returned" /\ streamer.editFailed) =>
       /\ streamer.fallbackSends = 1
       /\ streamer.kind = "handleEvent" =>
            /\ streamer.lastEditAt = streamer.t
            /\ streamer.fallbackSent # <<>> => streamer.progressMessageId = streamer.fallbackSent

\* handleEvent returned after a failed edit and a failed fallback send at a
\* time later than the previous edit
C28_Witness ==
  /\ streamer.pc = "returned"
  /\ streamer.kind = "handleEvent"
  /\ streamer.editFailed
  /\ streamer.fallbackSent = <<>>
  /\ streamer.progressMessageId # <<>>
  /\ streamer.lastEditAt = streamer.t
  /\ streamer.t > 1


\* C37: two consecutive updates of a run's progress view (the first send, or an
\* edit with its fallback send) are attempted at least editIntervalMs apart,
\* whatever the transport does.
C37_ProgressThrottled ==
  (streamer.prevAttempt # <<>> /\ streamer.lastAttempt # <<>>) =>
     streamer.lastAttempt[1] - streamer.prevAttempt[1] >= editIntervalMs

\* ---------------------------------------------------------------------------
\* the audit trail of the runs the chat handler enqueues
\* ---------------------------------------------------------------------------

\* the audit records that allow the command run for the run r
AllowRecordsOf(r) ==
  {i \in DOMAIN auditLogs : /\ auditLogs[i].command = "run"
                            /\ auditLogs[i].decision = "allow"
                            /\ auditLogs[i].runId = <<r>>}

\* C29: every run the chat handler enqueued, by /run <text>, by a bare text
\* message or by /continue <text>, has exactly one audit record with decision
\* allow, command run and the run's id.
C29_EnqueuedRunAudited ==
  \A r \in DOMAIN runs : Cardinality(AllowRecordsOf(r)) = 1


(***************************************************************************)
(* SpecGenericParser: createEngineEventParser fed chunk by chunk, side by  *)
(* side with a second parser that is fed the same lines without those      *)
(* JSON.parse rejects.                                                     *)
(***************************************************************************)

\* the lines the generic parser tells apart: blank, no JSON, JSON that is no
\* object (null), an object of a foreign type (result), text_delta, run_finished
GenericLines == {l \in Lines : l.type # "completed" /\ l.status \in {"", "success"}}

GenericChunks ==
  {c \in [lines : UNION {[1..n -> GenericLines] : n \in 0..MaxChunkLines},
          tail : {<<>>} \cup {<<l>> : l \in GenericLines}] :
     c.lines # <<>> \/ c.tail # <<>>}

\* the lines that are left when those failing JSON.parse are taken out
WellFormed(lines) == SelectSeq(lines, LAMBDA l : l.type # "malformed")

\* the number of non-blank lines that fail JSON.parse
FailedLines(lines) == Len(SelectSeq(lines, LAMBDA l : l.type = "malformed"))

\* the number of lines that are recognised events
RecognisedLines(lines) ==
  Len(SelectSeq(lines, LAMBDA l : l.type \in {"text_delta", "run_finished"}))

\* lines, events: what the last call consumed and returned; failedLines: the
\* lines so far that fail JSON.parse; ref: the second parser
NewGenericParser ==
  [kind |-> "generic", pending |-> <<>>, runFinishedEmitted |-> FALSE, malformedCount |-> 0,
   lines |-> <<>>, events |-> <<>>, added |-> 0, threw |-> FALSE, failedLines |-> 0,
   ref |-> [runFinishedEmitted |-> FALSE, events |-> <<>>, threw |-> FALSE],
   pushes |-> 0, finishes |-> 0]

InitGenericParser ==
  /\ now = 0
  /\ runs = <<>>
  /\ jobs = <<>>
  /\ runEvents = <<>>
  /\ leaseHist = <<>>
  /\ tasks = <<>>
  /\ activeSessions = {}
  /\ creates = <<>>
  /\ workers = <<>>
  /\ cancels = <<>>
  /\ reconciler = <<>>
  /\ inbox = {}
  /\ updates = <<>>
  /\ supervisor = <<>>
  /\ activeJobs = {}
  /\ execs = <<>>
  /\ inboxCalls = <<>>
  /\ NoHandler
  /\ runner = <<>>
  /\ NoMore
  /\ parser = NewGenericParser

\* the closure state the second parser's call starts from
RefState == [runFinishedEmitted |-> parser.ref.runFinishedEmitted, malformedCount |-> 0,
             events |-> <<>>, threw |-> FALSE]

\* emitRunFinishedIfNeeded
emitRunFinishedIfNeeded(st, status) ==
  IF st.threw \/ st.runFinishedEmitted THEN st
  ELSE [st EXCEPT !.runFinishedEmitted = TRUE,
                  !.events = Append(@, Event("run_finished", status))]

\* what a call leaves in the second parser
RefAfter(st) ==
  [runFinishedEmitted |-> st.runFinishedEmitted, events |-> st.events, threw |-> st.threw]

\* parser.push(chunk) of the generic parser
GenericPush(chunk) ==
  /\ parser.pushes < MaxPushes
  /\ LET st == ConsumeLines("generic", CallState, chunk.lines)
         ref == ConsumeLines("generic", RefState, WellFormed(chunk.lines))
     IN  parser' = [parser EXCEPT !.pending = chunk.tail,
                                  !.runFinishedEmitted = st.runFinishedEmitted,
                                  !.malformedCount = st.malformedCount,
                                  !.lines = chunk.lines,
                                  !.events = st.events,
                                  !.added = 0,
                                  !.threw = @ \/ st.threw,
                                  !.failedLines = @ + FailedLines(chunk.lines),
                                  !.ref = RefAfter(ref),
                                  !.pushes = @ + 1]
  /\ UNCHANGED <<now, storeVars, tasks, orchVars, botVars, inboxCalls, handlerVars, runner, moreVars>>

\* parser.finish(status) of the generic parser
GenericFinish(status) ==
  /\ parser.finishes < MaxFinishes
  /\ LET st == ConsumeLines("generic", CallState, parser.pending)
         end == emitRunFinishedIfNeeded(st, status)
         ref == emitRunFinishedIfNeeded(
                  ConsumeLines("generic", RefState, WellFormed(parser.pending)), status)
     IN  parser' = [parser EXCEPT !.pending = <<>>,
                                  !.runFinishedEmitted = end.runFinishedEmitted,
                                  !.malformedCount = end.malformedCount,
                                  !.lines = parser.pending,
                                  !.events = end.events,
                                  !.added = Len(end.events) - Len(st.events),
                                  !.threw = @ \/ end.threw,
                                  !.failedLines = @ + FailedLines(parser.pending),
                                  !.ref = RefAfter(ref),
                                  !.finishes = @ + 1]
  /\ UNCHANGED <<now, storeVars, tasks, orchVars, botVars, inboxCalls, handlerVars, runner, moreVars>>

NextGenericParser ==
  \/ \E chunk \in GenericChunks : GenericPush(chunk)
  \/ \E status \in EngineRunStatus : GenericFinish(status)

SpecGenericParser == InitGenericParser /\ [][NextGenericParser]_vars

\* C30: no call of the generic parser is aborted by a line; malformedLineCount()
\* is the number of non-blank lines so far that fail JSON.parse; only lines that
\* are recognised events are emitted; and each call returns the events, in the
\* order, that a parser fed the same lines without the malformed ones returns.
C30_MalformedLinesSkipped ==
  /\ ~parser.threw
  /\ parser.malformedCount = parser.failedLines
  /\ Len(parser.events) <= RecognisedLines(parser.lines) + parser.added
  /\ parser.events = parser.ref.events
  /\ parser.runFinishedEmitted = parser.ref.runFinishedEmitted

\* a push consumed a malformed line and then a text_delta line, which it returned
C30_Witness ==
  /\ parser.lines # <<>>
  /\ Len(parser.lines) = 2
  /\ parser.lines[1].type = "malformed"
  /\ parser.lines[2].type = "text_delta"
  /\ parser.events = <<Event("text_delta", "")>>
  /\ parser.malformedCount = 2
  /\ parser.pushes = 2


(***************************************************************************)
(* SpecDecoder: createLineDecoder.  One decoder is pushed a text in one    *)
(* chunk, a second one the same text cut in two chunks; both are flushed.  *)
(***************************************************************************)
MaxTextLen == 3

\* the characters that matter to the framing: carriage return, line feed, any other
Chars == {"CR", "LF", "x"}

DecoderTexts == UNION {[1..n -> Chars] : n \in 0..MaxTextLen}

\* if (line.endsWith('\r')) line = line.slice(0, -1)
StripCR(line) ==
  IF line # <<>> /\ line[Len(line)] = "CR" THEN SubSeq(line, 1, Len(line) - 1) ELSE line

\* the for loop of extractLines from position index on, the current line
\* starting at cursor
RECURSIVE ExtractFrom(_, _, _, _)
ExtractFrom(source, cursor, index, lines) ==
  IF index > Len(source)
    THEN [lines |-> lines, pending |-> SubSeq(source, cursor, Len(source))]
  ELSE IF source[index] # "LF"
    THEN ExtractFrom(source, cursor, index + 1, lines)
  ELSE ExtractFrom(source, index + 1, index + 1,
                   Append(lines, StripCR(SubSeq(source, cursor, index - 1))))

\* an extractLines that forgets the text after the last line feed
extractLinesOnly(source) == [lines |-> ExtractFrom(source, 1, 1, <<>>).lines, pending |-> <<>>]

\* extractLines: the lines that end in source, and the rest as the new pending
extractLines(source) == ExtractFrom(source, 1, 1, <<>>)

\* flush: the pending text as a last line, unless it is empty
flushLines(pending) == IF pending = <<>> THEN <<>> ELSE <<StripCR(pending)>>

\* a decoder: its pending text, the lines its calls returned so far, the calls made
NewDecoder == [pending |-> <<>>, out |-> <<>>, pushes |-> 0, flushed |-> FALSE]

InitDecoder ==
  /\ now = 0
  /\ runs = <<>>
  /\ jobs = <<>>
  /\ runEvents = <<>>
  /\ leaseHist = <<>>
  /\ tasks = <<>>
  /\ activeSessions = {}
  /\ creates = <<>>
  /\ workers = <<>>
  /\ cancels = <<>>
  /\ reconciler = <<>>
  /\ inbox = {}
  /\ updates = <<>>
  /\ supervisor = <<>>
  /\ activeJobs = {}
  /\ execs = <<>>
  /\ inboxCalls = <<>>
  /\ NoHandler
  /\ parser = <<>>
  /\ runner = <<>>
  /\ engineRun = <<>>
  /\ stream = <<>>
  /\ streamer = <<>>
  /\ shutdown = <<>>
  /\ \E s \in DecoderTexts : \E cut \in 0..Len(s) :
       decoder = [text |-> s, a |-> SubSeq(s, 1, cut), b |-> SubSeq(s, cut + 1, Len(s)),
                  whole |-> NewDecoder, split |-> NewDecoder]

DecoderUnchanged ==
  UNCHANGED <<now, storeVars, tasks, orchVars, botVars, inboxCalls, handlerVars, parser,
              runner, engineRun, stream, streamer, shutdown>>

\* decoder.push(chunk) on a decoder d
DecoderPush(d, chunk) ==
  LET r == extractLines(d.pending \o chunk)
  IN  [d EXCEPT !.pending = r.pending, !.out = @ \o r.lines, !.pushes = @ + 1]

\* decoder.flush() on a decoder d
DecoderFlush(d) ==
  [d EXCEPT !.pending = <<>>, !.out = @ \o flushLines(d.pending), !.flushed = TRUE]

\* the first decoder: push(s)
WholePush ==
  /\ decoder.whole.pushes = 0
  /\ decoder' = [decoder EXCEPT !.whole = DecoderPush(@, decoder.text)]
  /\ DecoderUnchanged

\* the first decoder: flush()
WholeFlush ==
  /\ decoder.whole.pushes = 1 /\ ~decoder.whole.flushed
  /\ decoder' = [decoder EXCEPT !.whole = DecoderFlush(@)]
  /\ DecoderUnchanged

\* the second decoder: push(a), then push(b)
SplitPush ==
  /\ decoder.split.pushes < 2
  /\ decoder' = [decoder EXCEPT !.split =
                   DecoderPush(@, IF decoder.split.pushes = 0 THEN decoder.a ELSE decoder.b)]
  /\ DecoderUnchanged

\* the second decoder: flush()
SplitFlush ==
  /\ decoder.split.pushes = 2 /\ ~decoder.split.flushed
  /\ decoder' = [decoder EXCEPT !.split = DecoderFlush(@)]
  /\ DecoderUnchanged

NextDecoder == WholePush \/ WholeFlush \/ SplitPush \/ SplitFlush

SpecDecoder == InitDecoder /\ [][NextDecoder]_vars

\* C31: for every text s and every cut s = a + b, push(a), push(b), flush() has
\* returned in total the same sequence of lines as push(s), flush(); a line feed
\* that is a chunk of its own gives exactly one line.
C31_ChunkingIndependent ==
  /\ (decoder.whole.flushed /\ decoder.split.flushed) => decoder.split.out = decoder.whole.out
  /\ (decoder.split.flushed /\ decoder.b = <<"LF">>) =>
       Len(decoder.split.out) = 1 + Len(extractLines(decoder.a).lines)

\* the text x CR LF was cut between the carriage return and the line feed, and
\* both decoders have returned the one line x
C31_Witness ==
  /\ decoder.a = <<"x", "CR">>
  /\ decoder.b = <<"LF">>
  /\ decoder.whole.flushed
  /\ decoder.split.flushed
  /\ decoder.split.out = <<(<<"x">>)>>
  /\ decoder.whole.out = <<(<<"x">>)>>


\* ---------------------------------------------------------------------------
\* one execution per run in the bot's worker pool
\* ---------------------------------------------------------------------------

\* the executions of run r that have marked it in_flight and not yet finalized it
ExecutingRun(r) ==
  {e \in DOMAIN execs : execs[e].run = r /\ execs[e].pc \in {"running", "finalize"}}

\* C32: between markRunInFlight and finalizeRun of one execution no other
\* execution of the same run is under way, also after the reconciliation has
\* abandoned the run and requeued its job.
C32_OneExecutionPerRun ==
  \A r \in DOMAIN runs : Cardinality(ExecutingRun(r)) <= 1


(***************************************************************************)
(* SpecStranded: the bot with one chat message, its worker loop, and a     *)
(* crash of the bot process: the executions under way stop for good, and   *)
(* with them the renewal of their leases; the process that takes over      *)
(* starts its worker loop with an empty activeJobs set.                    *)
(***************************************************************************)

\* the process dies while a lease is held: by an execution, or by the worker
\* loop between leaseNextJob's UPDATE and executeJob; it dies early enough for
\* the clock to run past the end of every lease held
BotRestart ==
  /\ now + LEASE_DURATION <= MaxTime
  /\ \A e \in DOMAIN execs : execs[e].pc # "dead"
  /\ \/ \E e \in DOMAIN execs : execs[e].pc # "settled"
     \/ supervisor.pc = "lease_reselect"
  /\ execs' = [e \in DOMAIN execs |->
                 IF execs[e].pc = "settled" THEN execs[e] ELSE [execs[e] EXCEPT !.pc = "dead"]]
  /\ activeJobs' = {}
  /\ supervisor' = IdleSupervisor
  /\ UNCHANGED <<BUnchanged, now, runs, jobs, cancels, inbox, updates>>

NextStranded ==
  \/ Tick
  \/ \E s \in BotSessions : PollingIdle /\ HandleUpdate(1, 1, 1, s)
  \/ ChatStep
  \/ SupervisorLeaseSelect
  \/ PoolStep
  \/ BotRestart

\* the worker loop keeps polling, time passes, every engine process ends and
\* every execution that is not dead goes on
SpecStranded ==
  /\ InitBot /\ [][NextStranded]_vars
  /\ WF_vars(Tick)
  /\ WF_vars(ChatStep)
  /\ WF_vars(SupervisorList)
  /\ WF_vars(SupervisorAbandon)
  /\ WF_vars(SupervisorRequeue)
  /\ WF_vars(SupervisorLeaseSelect)
  /\ WF_vars(SupervisorLeaseWrite)
  /\ WF_vars(SupervisorLeaseReturn)
  /\ WF_vars(\E e \in DOMAIN execs : ExecMarkInFlight(e))
  /\ WF_vars(\E e \in DOMAIN execs, x \in ExitStatuses : ExecExit(e, x))
  /\ WF_vars(\E e \in DOMAIN execs : ExecFinalize(e))
  /\ WF_vars(\E e \in DOMAIN execs : ExecCompleteJob(e))
  /\ WF_vars(\E e \in DOMAIN execs : ExecSettle(e))

\* the job exists / has reached completed or failed
Enqueued(j) == j \in DOMAIN jobs
Finished(j) == j \in DOMAIN jobs /\ jobs[j].status \in {"completed", "failed"}

\* C33: every job that was enqueued (no run is cancelled here) eventually
\* reaches completed or failed, also when the process that leased it dies
\* before or after markRunInFlight and stops renewing the lease.
C33_NoJobStranded == Enqueued(1) ~> Finished(1)


(***************************************************************************)
(* SpecPaired: the orchestrator as in SpecOrch, where the INSERT of the    *)
(* job may fail after the INSERT of the run.                               *)
(***************************************************************************)

\* createRun: repository.enqueueJob rejects; the exception leaves createRun
CreateInsertJobFails(c) ==
  /\ creates[c].pc = "insert_job"
  /\ creates' = [creates EXCEPT ![c].pc = "done", ![c].res = "EnqueueJobError"]
  /\ UNCHANGED <<unitVars, botVars, now, storeVars, tasks, activeSessions, workers,
                 cancels, reconciler>>

NextPaired ==
  \/ NextOrch
  \/ \E c \in 1..NumOrchCalls : CreateInsertJobFails(c)

SpecPaired == InitOrch /\ [][NextPaired]_vars

\* the jobs of run r
JobsOfRun(r) == {j \in DOMAIN jobs : jobs[j].runId = r}

\* C34: whenever no createRun call is between its statements, every run has
\* exactly one job and every job belongs to a run; a createRun call that failed
\* has left no run behind.
C34_RunsAndJobsPaired ==
  (\A c \in CallIds : creates[c].pc \in {"new", "done"}) =>
     /\ \A r \in DOMAIN runs : Cardinality(JobsOfRun(r)) = 1
     /\ \A j \in DOMAIN jobs : jobs[j].runId \in DOMAIN runs
     /\ \A c \in CallIds :
          creates[c].res \notin {"pending", "returned"} => creates[c].runId = 0


(***************************************************************************)
(* SpecStop: the bot with the owner's messages, its worker loop and /stop  *)
(* for the chat's current session; the clock stands still.                 *)
(***************************************************************************)

\* repository.listRunsBySession({sessionId, limit: 1}): ORDER BY created_at DESC
latestRunOfSession(rs, sessionId) ==
  LET rows == {i \in DOMAIN rs : rs[i].sessionId = sessionId}
  IN  IF rows = {} THEN {} ELSE {CHOOSE i \in rows : \A k \in rows : k <= i}

\* handleStop / stopGateway.stopSession: the latest run of the session is read;
\* if it is queued, in_flight or leased, cancelRun is issued (UPDATE runs) and
\* the reply will be 'Stop requested.', otherwise 'No running task for this session.'
StopSession(x, s) ==
  /\ cancels[x].pc = "new"
  /\ LET latest == latestRunOfSession(runs, s)
         hit == {r \in latest : runs[r].status \in {"queued", "in_flight", "leased"}}
     IN  IF hit = {}
           THEN /\ runs' = runs
                /\ cancels' = [cancels EXCEPT ![x] =
                     [pc |-> "done", runId |-> 0, statusBefore |-> "", sessionId |-> s,
                      reply |-> "No running task for this session."]]
           ELSE LET r == CHOOSE r \in hit : TRUE
                IN  /\ runs' = cancelRunUpdateRun(runs, r, now)
                    /\ cancels' = [cancels EXCEPT ![x] =
                         [pc |-> "update_job", runId |-> r, statusBefore |-> runs[r].status,
                          sessionId |-> s, reply |-> "Stop requested."]]
  /\ UNCHANGED <<unitVars, botVars, now, jobs, runEvents, leaseHist, tasks, activeSessions,
                 creates, workers, reconciler>>

NextStop ==
  \/ \E u \in UpdateIds, s \in BotSessions : PollingIdle /\ HandleUpdate(u, u, u, s)
  \/ ChatStep
  \/ \E x \in CancelIds, s \in BotSessions : PollingIdle /\ StopSession(x, s)
  \/ \E x \in CancelIds : CancelRunEnd(x)
  \/ (Len(execs) < MaxBotExecs /\ SupervisorLeaseSelect)
  \/ SupervisorList
  \/ SupervisorLeaseWrite
  \/ SupervisorLeaseReturn
  \/ \E e \in DOMAIN execs : ExecMarkInFlight(e)
  \/ \E e \in DOMAIN execs, x \in ExitStatuses : ExecExit(e, x)
  \/ \E e \in DOMAIN execs : ExecFinalize(e)
  \/ \E e \in DOMAIN execs : ExecCompleteJob(e)
  \/ \E e \in DOMAIN execs : ExecSettle(e)
  \/ \E e \in DOMAIN execs : ExecPollCancelled(e)

SpecStop == InitBot /\ [][NextStop]_vars

\* C35: /stop for a session of which some run is queued, leased or in_flight
\* answers 'Stop requested.' and leaves every such run cancelled; with no such
\* run it changes no run and answers 'No running task for this session.'; the
\* second statement of cancelRun cancels the job of the run.
C35_StopCancelsActiveRun ==
  [][\A x \in CancelIds :
       /\ (cancels[x].pc = "new" /\ cancels'[x].pc # "new") =>
            LET active == ActiveRunsOfSession(runs, cancels'[x].sessionId)
            IN  IF active = {}
                  THEN /\ runs' = runs
                       /\ cancels'[x].pc = "done"
                       /\ cancels'[x].reply = "No running task for this session."
                  ELSE /\ cancels'[x].reply = "Stop requested."
                       /\ \A r \in active : runs'[r].status = "cancelled"
       /\ (cancels[x].pc = "update_job" /\ cancels'[x].pc = "done") =>
            \A j \in DOMAIN jobs :
              jobs[j].runId = cancels[x].runId => jobs'[j].status = "cancelled"]_vars


(***************************************************************************)
(* SpecDashboard: the owner's messages and the buttons of the dashboard,   *)
(* one at a time, while time passes.                                       *)
(***************************************************************************)
MaxPresses == 3

\* callback_data of the dashboard's buttons
CallbackData ==
  {[action |-> a, value |-> <<>>] :
     a \in {"newsession", "continue", "cliattach", "sessions", "unsafe_off", "back"}}
  \cup {[action |-> "proj", value |-> <<v>>] : v \in {"p1", "p2"}}
  \cup {[action |-> "session", value |-> <<i>>] : i \in 1..2}
  \cup {[action |-> "unsafe", value |-> <<n>>] : n \in 0..MaxMinutes}

\* the bot's callback_query:data handler for a button the owner pressed, from
\* handleCallbackQuery's entry to its return
HandleCallback(data) ==
  /\ handledCount < MaxPresses
  /\ LET w == handleCallbackQuery(World(OwnerChat), OwnerChat, data, now)
     IN  /\ chatState' = Put(chatState, OwnerChat, w.state)
         /\ chats' = w.chats
         /\ sessions' = w.sessions
         /\ lastCall' = <<[data |-> data, t |-> now, actions |-> w.actions,
                           stateBefore |-> chatState,
                           unsafeBefore |-> getChatUnsafeUntil(chats, OwnerChat)]>>
         /\ handledCount' = handledCount + 1
  /\ UNCHANGED <<now, runs, jobs, runEvents, leaseHist, tasks, orchVars, inbox, updates,
                 supervisor, activeJobs, execs, inboxCalls, config, auditLogs, enabledUntil,
                 engines, enqueuedUnsafe, parser, runner, moreVars>>

NextDashboard ==
  \/ \E i \in UpdateIds : \E msg \in OwnerMessagesOf(i) : HandleMessage(i, msg)
  \/ \E data \in CallbackData : HandleCallback(data)
  \/ ClockAdvance

SpecDashboard == InitHandler /\ [][NextDashboard]_vars

\* the latest call was a button press
LastIsCallback == lastCall # <<>> /\ "data" \in DOMAIN Last

\* C36: a button other than the unsafe switches, pressed while the chat's stored
\* unsafeUntil is later than now, returns edit_keyboard actions that all carry
\* the banner "UNSAFE MODE (expires <ISO of unsafeUntil>)".
C36_DashboardCarriesBanner ==
  (/\ LastIsCallback
   /\ Last.data.action \notin {"unsafe", "unsafe_off"}
   /\ isToolUnsafeEnabled(Last.unsafeBefore, Last.t))
    => \A i \in DOMAIN Last.actions :
          Last.actions[i].type = "edit_keyboard" => Last.actions[i].banner = Last.unsafeBefore

(***************************************************************************)
(* SpecSelect: the owner's selection commands and buttons, one at a time,  *)
(* with up to two configured projects.                                     *)
(***************************************************************************)
SelectText(command, prompt, arg) ==
  [command |-> command, prompt |-> prompt, minutes |-> <<>>, arg |-> arg]

\* /use, /use_session, /newsession, /run, bare text, /continue and /attach,
\* with known, unknown and missing arguments
SelectTexts ==
  {SelectText("use", "", a) : a \in {<<>>, <<"p1">>, <<"p2">>, <<"p9">>}}
  \cup {SelectText("use_session", "", a) : a \in {<<>>, <<1>>, <<2>>, <<9>>}}
  \cup {SelectText("newsession", "", a) : a \in {<<>>, <<"claude">>, <<"bogus">>}}
  \cup {SelectText("attach", "", a) : a \in {<<>>, <<"e1">>}}
  \cup {SelectText(c, "hi", <<>>) : c \in {"", "run", "continue"}}
  \cup {SelectText("continue", "", <<>>)}

SelectMessagesOf(i) ==
  {[chatType |-> "private", from |-> "owner", messageId |-> i, text |-> x] : x \in SelectTexts}

\* the project and session buttons
SelectCallbacks ==
  {data \in CallbackData : data.action \in {"proj", "session", "newsession", "continue",
                                           "cliattach", "sessions", "back"}}

InitSelect ==
  /\ now = 0
  /\ runs = <<>>
  /\ jobs = <<>>
  /\ runEvents = <<>>
  /\ leaseHist = <<>>
  /\ tasks = <<>>
  /\ activeSessions = {}
  /\ creates = <<>>
  /\ workers = <<>>
  /\ cancels = <<>>
  /\ reconciler = <<>>
  /\ inbox = {}
  /\ updates = <<>>
  /\ supervisor = <<>>
  /\ activeJobs = {}
  /\ execs = <<>>
  /\ inboxCalls = <<>>
  /\ config \in [killSwitch : {FALSE}, projects : 0..Len(ProjectIds)]
  /\ chatState = <<>>
  /\ chats = <<>>
  /\ sessions = <<>>
  /\ auditLogs = <<>>
  /\ lastCall = <<>>
  /\ enabledUntil = <<>>
  /\ handledCount = 0
  /\ engines = <<>>
  /\ enqueuedUnsafe = {}
  /\ parser = <<>>
  /\ runner = <<>>
  /\ NoMore

NextSelect ==
  \/ \E i \in UpdateIds : \E msg \in SelectMessagesOf(i) : HandleMessage(i, msg)
  \/ \E data \in SelectCallbacks : HandleCallback(data)

SpecSelect == InitSelect /\ [][NextSelect]_vars

\* C40: whenever a chat's state has a sessionId, it has a projectId too, and
\* that is the project of the selected session's row.
C40_SessionInProject ==
  \A c \in DOMAIN chatState :
    chatState[c].sessionId # <<>> =>
      /\ chatState[c].sessionId[1] \in DOMAIN sessions
      /\ chatState[c].projectId = <<sessions[chatState[c].sessionId[1]].projectId>>

\* after a session of the first project, the chat went over to the second
\* project and has a session selected there
C40_Witness ==
  /\ OwnerChat \in DOMAIN chatState
  /\ chatState[OwnerChat].sessionId # <<>>
  /\ chatState[OwnerChat].projectId = <<"p2">>
  /\ \E i \in DOMAIN sessions : sessions[i].projectId = "p1" /\ i < chatState[OwnerChat].sessionId[1]

(***************************************************************************)
(* SpecShutdown: the bot receives SIGINT or SIGTERM while its worker loop  *)
(* leases jobs and executes them.                                          *)
(***************************************************************************)
ShutdownUnchanged ==
  UNCHANGED <<now, storeVars, tasks, orchVars, inbox, updates, supervisor, activeJobs,
              inboxCalls, handlerVars, parser, runner, engineRun, stream, streamer, decoder>>

\* the process has not exited
BotAlive == shutdown # <<"exited">>

\* gracefulShutdown up to its first await: shuttingDown = true, the notice to
\* the owner is being sent
ShutdownSignal ==
  /\ shutdown = <<>>
  /\ shutdown' = <<"notify">>
  /\ UNCHANGED execs
  /\ ShutdownUnchanged

\* gracefulShutdown: runner.cancelAll() ends every engine process with status
\* cancelled; with no active job bot.stop() and process.exit(0) follow at once,
\* otherwise the first delay(200) is awaited
ShutdownCancelAll ==
  /\ shutdown = <<"notify">>
  /\ execs' = [e \in DOMAIN execs |->
                 IF execs[e].pc = "running"
                   THEN [execs[e] EXCEPT !.pc = "finalize", !.exit = "cancelled"]
                   ELSE execs[e]]
  /\ shutdown' = IF activeJobs = {} THEN <<"exited">> ELSE <<"waiting">>
  /\ ShutdownUnchanged

\* gracefulShutdown: after a delay(200) activeJobs is empty or the deadline of
\* 5 s has passed: bot.stop(), process.exit(0)
ShutdownExit ==
  /\ shutdown = <<"waiting">>
  /\ shutdown' = <<"exited">>
  /\ UNCHANGED execs
  /\ ShutdownUnchanged

NextShutdown ==
  \/ (BotAlive /\ \E u \in UpdateIds, s \in BotSessions : PollingIdle /\ HandleUpdate(u, u, u, s))
  \/ (BotAlive /\ ChatStep)
  \/ (BotAlive /\ Len(execs) < MaxBotExecs /\ SupervisorLeaseSelect)
  \/ (BotAlive /\ SupervisorList)
  \/ (BotAlive /\ SupervisorLeaseWrite)
  \/ (BotAlive /\ SupervisorLeaseReturn)
  \/ (BotAlive /\ \E e \in DOMAIN execs : ExecMarkInFlight(e))
  \/ (BotAlive /\ \E e \in DOMAIN execs, x \in ExitStatuses : ExecExit(e, x))
  \/ (BotAlive /\ \E e \in DOMAIN execs : ExecFinalize(e))
  \/ (BotAlive /\ \E e \in DOMAIN execs : ExecCompleteJob(e))
  \/ (BotAlive /\ \E e \in DOMAIN execs : ExecSettle(e))
  \/ ShutdownSignal
  \/ ShutdownCancelAll
  \/ ShutdownExit

SpecShutdown == InitBot /\ [][NextShutdown]_vars

\* the jobs this bot holds a lease of
LeasedJobs == {j \in DOMAIN jobs : jobs[j].status = "leased"}

\* the executions whose engine process has been started
StartedProcesses == {e \in DOMAIN execs : execs[e].pc \notin {"mark_in_flight"}}

\* C38: once shuttingDown is set and runner.cancelAll() has been called, no step
\* leases a job and no step starts an engine process.
C38_NothingStartsAfterShutdown ==
  [][shutdown = <<"waiting">> =>
       /\ LeasedJobs' \subseteq LeasedJobs
       /\ Len(execs') = Len(execs)
       /\ \A e \in DOMAIN execs : e \in StartedProcesses' => e \in StartedProcesses]_vars

(***************************************************************************)
(* SpecPersist: runClaude for one run of the bot.  The process writes      *)
(* whole lines to stdout; every event the parser returns is handed to      *)
(* onEvent, which appends it to run_events before the next one.            *)
(***************************************************************************)
PersistedRun == 1

\* lines of the Claude CLI: text, its result line, a line that is no JSON
ClaudeOutputLines == {l \in Lines : l.type \in {"text_delta", "result", "malformed"}}

ClaudeOutput == UNION {[1..n -> ClaudeOutputLines] : n \in 1..MaxChunkLines}

\* for (const event of events) await onEvent(event): appendRunEvent gives each
\* event the next seq of the run
RECURSIVE PersistAll(_, _, _)
PersistAll(evs, runId, events) ==
  IF events = <<>> THEN evs
  ELSE PersistAll(InsertRunEvent(evs, runId, MaxSeq(evs, runId) + 1, Head(events).type, <<>>),
                  runId, Tail(events))

\* runClaude after runner.start: no exit yet, events = []
NewClaudeRun == [pc |-> "running", exitStatus |-> <<>>, sawError |-> FALSE]

InitPersist ==
  /\ now = 0
  /\ runs = <<>>
  /\ jobs = <<>>
  /\ runEvents = <<>>
  /\ leaseHist = <<>>
  /\ tasks = <<>>
  /\ activeSessions = {}
  /\ creates = <<>>
  /\ workers = <<>>
  /\ cancels = <<>>
  /\ reconciler = <<>>
  /\ inbox = {}
  /\ updates = <<>>
  /\ supervisor = <<>>
  /\ activeJobs = {}
  /\ execs = <<>>
  /\ inboxCalls = <<>>
  /\ NoHandler
  /\ runner = <<>>
  /\ parser = NewParser("claude")
  /\ engineRun = NewClaudeRun
  /\ stream = <<>> /\ streamer = <<>> /\ decoder = <<>> /\ shutdown = <<>>

PersistUnchanged ==
  UNCHANGED <<now, runs, jobs, leaseHist, tasks, orchVars, botVars, inboxCalls, handlerVars,
              runner, stream, streamer, decoder, shutdown>>

\* onStdout: parser.push(chunk), events.push and onEvent for each event
ClaudeStdout(lines) ==
  /\ engineRun.pc = "running"
  /\ parser.pushes < MaxPushes
  /\ LET st == ConsumeLines("claude", CallState, lines)
     IN  /\ parser' = [parser EXCEPT !.runFinishedEmitted = st.runFinishedEmitted,
                                     !.malformedCount = st.malformedCount,
                                     !.finished = @ \o Returned(st),
                                     !.pushes = @ + 1]
         /\ runEvents' = PersistAll(runEvents, PersistedRun, st.events)
         /\ engineRun' = [engineRun EXCEPT !.sawError =
                            @ \/ \E i \in DOMAIN st.events : st.events[i].type = "error"]
  /\ PersistUnchanged

\* handle.result settles with the given status, stderrBuffer being empty or
\* not: an error exit with stderr text and no error event so far gives one
\* error event; then parser.finish(status) adds run_finished unless one was
\* emitted; each event goes to onEvent
ClaudeReturn(status, stderr) ==
  /\ engineRun.pc = "running"
  /\ LET synth == IF status = "error" /\ stderr /\ ~engineRun.sawError
                    THEN <<Event("error", "")>> ELSE <<>>
         final == IF parser.runFinishedEmitted THEN <<>>
                  ELSE <<Event("run_finished", status)>>
     IN  /\ runEvents' = PersistAll(runEvents, PersistedRun, synth \o final)
         /\ parser' = [parser EXCEPT !.runFinishedEmitted = TRUE,
                                     !.finished = @ \o [i \in DOMAIN final |-> final[i].status],
                                     !.finishes = @ + 1,
                                     !.finishesReturned = @ + 1]
         /\ engineRun' = [engineRun EXCEPT !.pc = "returned", !.exitStatus = <<status>>,
                                           !.sawError = @ \/ synth # <<>>]
  /\ PersistUnchanged

NextPersist ==
  \/ \E lines \in ClaudeOutput : ClaudeStdout(lines)
  \/ \E status \in ExitStatuses, stderr \in BOOLEAN : ClaudeReturn(status, stderr)

SpecPersist == InitPersist /\ [][NextPersist]_vars

\* the persisted events of a run, by seq
PersistedEvents(r) == SelectSeq(runEvents, LAMBDA ev : ev.runId = r)

\* C39: once the run has finished executing, its persisted events hold exactly
\* one run_finished, and that one has the highest seq.
C39_RunFinishedLast ==
  engineRun.pc = "returned" =>
    LET evs == PersistedEvents(PersistedRun)
    IN  /\ Cardinality({i \in DOMAIN evs : evs[i].eventType = "run_finished"}) = 1
        /\ evs[Len(evs)].eventType = "run_finished"
        /\ evs[Len(evs)].seq = MaxSeq(runEvents, PersistedRun)
====
